---- MODULE Spec2Model ----
(***************************************************************************)
(* A model of the voice_meter backend: the text comparison of             *)
(* TranscriptionService, the acoustic analysis of SpeechAnalyzer and the   *)
(* /analyze request handler.                                               *)
(*                                                                         *)
(* Python floats are modelled by exact rationals <<numerator,              *)
(* denominator>>; an optional value is <<>> for None and   *)
(* <<v>> for the value v; Python's 0-based positions are kept and a        *)
(* sequence s is read at s[i + 1].                                         *)
(***************************************************************************)
EXTENDS Integers, Sequences, FiniteSets, TLC

VARIABLES
    \* ---- TranscriptionService.compare_texts (SpecText)
    expected_text,      \* the raw expected text, a sequence of characters
    transcribed_raw,    \* the raw transcribed text, a sequence of characters
    comparison,         \* the dict compare_texts returns, or None
    \* ---- the decoded clip, as librosa reports it
    sr,                 \* the sample rate
    y_len,              \* len(y), the number of samples
    rms,                \* librosa.feature.rms: one energy level per frame
    onsets,             \* onset_detect of the two rate estimators: frames
    pacing_onsets,      \* onset_detect of _analyze_local_pacing: frames
    \* ---- the locals of SpeechAnalyzer.analyze_audio_file, None until set
    speech_analysis,    \* the dict of _analyze_speech_activity
    sr_wpm,             \* the Speech Rate of _estimate_words_per_minute
    ar_wpm,             \* the Articulation Rate
    pause_analysis,     \* the dict of _analyze_pauses
    pacing_variations,  \* the dict of _analyze_local_pacing
    intelligibility_score,    \* the score of _estimate_intelligibility
    \* ---- one POST /analyze request (Spec)
    pc,                 \* the statement the handler is at
    audio,              \* the upload: unreadable, empty, undecodable, or a clip
    whisper,            \* what the transcription service will do
    category,           \* the category passed to analyze_audio_file
    result,             \* the dict of analyze_audio_file, or None
    transcribed_text,   \* the handler's locals, None until set
    advanced_analysis,
    pronunciation_score,
    overall_score,
    transcription_attempts, \* the calls into the transcription service
    compare_calls,      \* the calls of compare_texts
    recordings,         \* the rows of the recordings table
    recording_id_seq,   \* the last id drawn for a row of recordings
    user_statistics,    \* the rows of the user_statistics table
    temp_files,         \* the temporary files that exist on disk
    response,           \* the HTTP response, or None
    \* ---- SpeechAnalysisService, on the text transcribed_raw (SpecService)
    transcript_segments,           \* the transcription segments: start and end times
    transcript_duration,     \* the duration passed with them
    pause_metrics,      \* the PauseMetrics of analyze_pauses, or None
    comprehensive       \* the analysis of analyze_comprehensive, or None

text_vars == <<expected_text, transcribed_raw, comparison>>

clip_vars == <<sr, y_len, rms, onsets, pacing_onsets>>

analysis_vars == <<speech_analysis, sr_wpm, ar_wpm, pause_analysis, pacing_variations, intelligibility_score>>

locals_vars == <<result, transcribed_text, advanced_analysis, pronunciation_score, overall_score>>

storage_vars == <<recordings, recording_id_seq, user_statistics, temp_files>>

handler_vars == <<pc, audio, whisper, category, locals_vars, transcription_attempts, compare_calls, storage_vars, response>>

service_vars == <<transcript_segments, transcript_duration, pause_metrics, comprehensive>>

vars == <<text_vars, clip_vars, analysis_vars, handler_vars, service_vars>>

None == <<>>

Some(v) == <<v>>

\* ------------------------------------------------------------------------
\* Arithmetic helpers
\* ------------------------------------------------------------------------

Max(x, y) == IF x >= y THEN x ELSE y

RECURSIVE SumSeq(_)
SumSeq(s) == IF s = <<>> THEN 0 ELSE Head(s) + SumSeq(Tail(s))

\* Python's round() of the rational n / d (n >= 0, d > 0) to an integer:
\* round half to even.
PyRound(n, d) ==
    LET q == n \div d
        r == n % d
    IN  IF 2 * r < d THEN q
        ELSE IF 2 * r > d THEN q + 1
        ELSE IF q % 2 = 0 THEN q ELSE q + 1

\* Python's int() of the non-negative rational n / d: truncation.
PyInt(n, d) == n \div d

\* ------------------------------------------------------------------------
\* difflib.SequenceMatcher(None, a, b), as transcription_service.py uses it
\* (no junk; the autojunk heuristic only applies from 200 elements on)
\* ------------------------------------------------------------------------

\* The length of the common run of a and b that starts at (i, j) and stays
\* below (ahi, bhi).
RECURSIVE RunLen(_, _, _, _, _, _)
RunLen(a, b, i, j, ahi, bhi) ==
    IF i < ahi /\ j < bhi /\ a[i + 1] = b[j + 1]
    THEN 1 + RunLen(a, b, i + 1, j + 1, ahi, bhi)
    ELSE 0

\* find_longest_match: the longest matching block in a[alo:ahi], b[blo:bhi];
\* of all the longest, the one that starts earliest in a, and of those the
\* one that starts earliest in b; <<alo, blo, 0>> when nothing matches.
FindLongestMatch(a, b, alo, ahi, blo, bhi) ==
    LET starts == {p \in (alo .. ahi - 1) \X (blo .. bhi - 1) :
                        a[p[1] + 1] = b[p[2] + 1]}
        size(p) == RunLen(a, b, p[1], p[2], ahi, bhi)
    IN  IF starts = {} THEN <<alo, blo, 0>>
        ELSE LET bestsize == CHOOSE k \in {size(p) : p \in starts} :
                                \A p \in starts : size(p) <= k
                 longest == {p \in starts : size(p) = bestsize}
                 besti == CHOOSE i \in {p[1] : p \in longest} :
                                \A p \in longest : i <= p[1]
                 bestj == CHOOSE j \in {p[2] : p \in {q \in longest : q[1] = besti}} :
                                \A p \in {q \in longest : q[1] = besti} : j <= p[2]
             IN  <<besti, bestj, bestsize>>

\* The recursion of get_matching_blocks: the longest match m, then the
\* blocks to its left and to its right, in increasing order.
RECURSIVE BlocksIn(_, _, _, _, _, _)
BlocksAround(a, b, alo, ahi, blo, bhi, m) ==
    IF m[3] = 0 THEN <<>>
    ELSE (IF alo < m[1] /\ blo < m[2]
          THEN BlocksIn(a, b, alo, m[1], blo, m[2]) ELSE <<>>)
         \o <<m>> \o
         (IF m[1] + m[3] < ahi /\ m[2] + m[3] < bhi
          THEN BlocksIn(a, b, m[1] + m[3], ahi, m[2] + m[3], bhi) ELSE <<>>)

BlocksIn(a, b, alo, ahi, blo, bhi) ==
    BlocksAround(a, b, alo, ahi, blo, bhi,
                 FindLongestMatch(a, b, alo, ahi, blo, bhi))

\* The collapse of adjacent blocks in get_matching_blocks.
RECURSIVE MergeAdjacent(_, _)
MergeAdjacent(cur, rest) ==
    IF rest = <<>> THEN (IF cur[3] > 0 THEN <<cur>> ELSE <<>>)
    ELSE LET nxt == Head(rest)
         IN  IF cur[1] + cur[3] = nxt[1] /\ cur[2] + cur[3] = nxt[2]
             THEN MergeAdjacent(<<cur[1], cur[2], cur[3] + nxt[3]>>, Tail(rest))
             ELSE (IF cur[3] > 0 THEN <<cur>> ELSE <<>>)
                  \o MergeAdjacent(nxt, Tail(rest))

\* get_matching_blocks: the blocks, ending with the sentinel <<la, lb, 0>>.
GetMatchingBlocks(a, b) ==
    MergeAdjacent(<<0, 0, 0>>, BlocksIn(a, b, 0, Len(a), 0, Len(b)))
        \o <<(<<Len(a), Len(b), 0>>)>>

\* get_opcodes: the walk over the matching blocks; an opcode is
\* <<tag, i1, i2, j1, j2>>.
RECURSIVE OpcodesFrom(_, _, _)
OpcodesFrom(blocks, i, j) ==
    IF blocks = <<>> THEN <<>>
    ELSE LET ai == Head(blocks)[1]
             bj == Head(blocks)[2]
             size == Head(blocks)[3]
             tag == IF i < ai /\ j < bj THEN "replace"
                    ELSE IF i < ai THEN "delete"
                    ELSE IF j < bj THEN "insert"
                    ELSE ""
         IN  (IF tag # "" THEN <<(<<tag, i, ai, j, bj>>)>> ELSE <<>>)
             \o (IF size > 0
                 THEN <<(<<"equal", ai, ai + size, bj, bj + size>>)>> ELSE <<>>)
             \o OpcodesFrom(Tail(blocks), ai + size, bj + size)

GetOpcodes(a, b) == OpcodesFrom(GetMatchingBlocks(a, b), 0, 0)

\* The number of matched elements: the sum of the block sizes.
BlockSizes(blocks) == [n \in 1 .. Len(blocks) |-> blocks[n][3]]

MatchedCount(a, b) == SumSeq(BlockSizes(GetMatchingBlocks(a, b)))

\* ratio(): 2.0 * matches / (len(a) + len(b)), and 1.0 when both are empty.
Ratio(a, b) ==
    IF Len(a) + Len(b) = 0 THEN <<1, 1>>
    ELSE <<2 * MatchedCount(a, b), Len(a) + Len(b)>>

\* Comparisons of rationals <<n, d>> with d > 0.
RatGT(x, y) == x[1] * y[2] > y[1] * x[2]

RatLE(x, y) == x[1] * y[2] <= y[1] * x[2]

\* ------------------------------------------------------------------------
\* TranscriptionService: normalize_text, compare_texts and its helpers
\* ------------------------------------------------------------------------

\* str.lower() on the characters of the model's alphabet.
Lower(c) == IF c = "A" THEN "a" ELSE IF c = "B" THEN "b" ELSE c

\* \s of the regular expression, and what str.split() splits on.
IsSpace(c) == c = " "

\* \w of the regular expression.
IsWordChar(c) == c \in {"a", "b", "i", "A", "B", "1"}

\* str.split(): the maximal runs of non-space characters.
RECURSIVE SplitFrom(_, _)
SplitFrom(text, word) ==
    IF text = <<>> THEN (IF word = <<>> THEN <<>> ELSE <<word>>)
    ELSE IF IsSpace(Head(text))
         THEN (IF word = <<>> THEN <<>> ELSE <<word>>) \o SplitFrom(Tail(text), <<>>)
         ELSE SplitFrom(Tail(text), Append(word, Head(text)))

Split(text) == SplitFrom(text, <<>>)

\* ' '.join(words)
RECURSIVE JoinSp(_)
JoinSp(words) ==
    IF words = <<>> THEN <<>>
    ELSE IF Len(words) = 1 THEN Head(words)
    ELSE Head(words) \o <<" ">> \o JoinSp(Tail(words))

\* normalize_text: lowercase, drop what is neither \w nor \s, collapse spaces.
normalize_text(text) ==
    LET lowered == [n \in 1 .. Len(text) |-> Lower(text[n])]
        kept == SelectSeq(lowered, LAMBDA c : IsWordChar(c) \/ IsSpace(c))
    IN  JoinSp(Split(kept))

\* _calculate_word_accuracy: matched words over len(expected), as a rational.
WordAccuracyFirstEmptyIsOne(expected, transcribed) ==
    IF expected = <<>> THEN <<1, 1>>
    ELSE <<MatchedCount(expected, transcribed), Len(expected)>>

calculate_word_accuracy(expected, transcribed) ==
    IF expected = <<>>
    THEN (IF transcribed = <<>> THEN <<1, 1>> ELSE <<0, 1>>)
    ELSE <<MatchedCount(expected, transcribed), Len(expected)>>

\* best_ratio > 0.5, for best = <<best_match, best_ratio>>
IsMispronouncedAtHalf(best) == best[1] # None /\ ~ RatGT(<<1, 2>>, best[2])

IsMispronounced(best) == best[1] # None /\ RatGT(best[2], <<1, 2>>)

\* One turn of the inner loop of _find_differences: trans_word replaces the
\* best match when its ratio is strictly higher.
BetterMatch(best, trans_word, ratio) ==
    IF RatGT(ratio, best[2]) THEN <<trans_word, ratio>> ELSE best

\* The inner loop of _find_differences: the first word of the transcribed
\* chunk with the highest ratio, kept only when that ratio is above 0;
\* <<best_match, best_ratio>>.
RECURSIVE BestMatch(_, _, _)
BestMatch(exp_word, chunk, best) ==
    IF chunk = <<>> THEN best
    ELSE BestMatch(exp_word, Tail(chunk),
                   BetterMatch(best, Head(chunk), Ratio(exp_word, Head(chunk))))

\* The end of the loop over a replaced expected word: mispronounced when the
\* best ratio is above 0.5, missing otherwise.
Classify(exp_word, best, differences) ==
    IF IsMispronounced(best)
    THEN [differences EXCEPT !.mispronounced = Append(@,
            [expected |-> exp_word, heard |-> best[1],
             similarity |-> PyRound(100 * best[2][1], best[2][2])])]
    ELSE [differences EXCEPT !.missing = Append(@, exp_word)]

\* A replace opcode: each expected word is mispronounced or missing.
RECURSIVE ReplaceWalk(_, _, _)
ReplaceWalk(expected_chunk, transcribed_chunk, differences) ==
    IF expected_chunk = <<>> THEN differences
    ELSE ReplaceWalk(Tail(expected_chunk), transcribed_chunk,
            Classify(Head(expected_chunk),
                     BestMatch(Head(expected_chunk), transcribed_chunk, <<None, <<0, 1>>>>),
                     differences))

ApplyOpcodeDeleteDropped(op, expected, transcribed, differences) ==
    CASE op[1] = "insert" ->
            [differences EXCEPT !.extra = @ \o SubSeq(transcribed, op[4] + 1, op[5])]
      [] op[1] = "replace" ->
            ReplaceWalk(SubSeq(expected, op[2] + 1, op[3]),
                        SubSeq(transcribed, op[4] + 1, op[5]), differences)
      [] OTHER -> differences

\* The body of the loop of _find_differences for one opcode
\* <<tag, i1, i2, j1, j2>>.
ApplyOpcode(op, expected, transcribed, differences) ==
    CASE op[1] = "delete" ->
            [differences EXCEPT !.missing = @ \o SubSeq(expected, op[2] + 1, op[3])]
      [] op[1] = "insert" ->
            [differences EXCEPT !.extra = @ \o SubSeq(transcribed, op[4] + 1, op[5])]
      [] op[1] = "replace" ->
            ReplaceWalk(SubSeq(expected, op[2] + 1, op[3]),
                        SubSeq(transcribed, op[4] + 1, op[5]), differences)
      [] OTHER -> differences

\* The loop of _find_differences over the opcodes.
RECURSIVE DifferencesWalk(_, _, _, _)
DifferencesWalk(opcodes, expected, transcribed, differences) ==
    IF opcodes = <<>> THEN differences
    ELSE DifferencesWalk(Tail(opcodes), expected, transcribed,
                         ApplyOpcode(Head(opcodes), expected, transcribed, differences))

find_differences(expected, transcribed) ==
    DifferencesWalk(GetOpcodes(expected, transcribed), expected, transcribed,
                    [missing |-> <<>>, extra |-> <<>>, mispronounced |-> <<>>])

\* pronunciation_score = int(similarity_ratio * 100), on the unrounded ratio.
PronunciationScoreRounded(ratio) == PyRound(100 * ratio[1], ratio[2])

PronunciationScore(ratio) == PyInt(100 * ratio[1], ratio[2])

\* The dict compare_texts returns. similarity_ratio and word_accuracy are the
\* values rounded to 4 places, in units of 1/10000; ratio and accuracy are
\* the unrounded rationals they come from.
ComparisonResult(expected, transcribed, expected_normalized, transcribed_normalized, expected_words, transcribed_words, similarity_ratio, word_accuracy, differences) ==
    [expected_text |-> expected,
     transcribed_text |-> transcribed,
     expected_normalized |-> expected_normalized,
     transcribed_normalized |-> transcribed_normalized,
     ratio |-> similarity_ratio,
     similarity_ratio |-> PyRound(10000 * similarity_ratio[1], similarity_ratio[2]),
     pronunciation_score |-> PronunciationScore(similarity_ratio),
     accuracy |-> word_accuracy,
     word_accuracy |-> PyRound(10000 * word_accuracy[1], word_accuracy[2]),
     expected_word_count |-> Len(expected_words),
     transcribed_word_count |-> Len(transcribed_words),
     missing_words |-> differences.missing,
     extra_words |-> differences.extra,
     mispronounced_words |-> differences.mispronounced]

\* compare_texts once both texts are normalized and split into words.
CompareWords(expected, transcribed, expected_normalized, transcribed_normalized, expected_words, transcribed_words) ==
    ComparisonResult(expected, transcribed, expected_normalized, transcribed_normalized,
                     expected_words, transcribed_words,
                     Ratio(expected_normalized, transcribed_normalized),
                     calculate_word_accuracy(expected_words, transcribed_words),
                     find_differences(expected_words, transcribed_words))

CompareNormalized(expected, transcribed, expected_normalized, transcribed_normalized) ==
    CompareWords(expected, transcribed, expected_normalized, transcribed_normalized,
                 Split(expected_normalized), Split(transcribed_normalized))

compare_texts(expected, transcribed) ==
    CompareNormalized(expected, transcribed,
                      normalize_text(expected), normalize_text(transcribed))

\* ------------------------------------------------------------------------
\* Float arithmetic, computed exactly on rationals <<n, d>> in lowest terms
\* ------------------------------------------------------------------------

RECURSIVE GCD(_, _)
GCD(a, b) == IF b = 0 THEN a ELSE GCD(b, a % b)

Reduce(n, d, g) == <<n \div g, d \div g>>

\* The rational n / d (n >= 0, d > 0) in lowest terms.
Rat(n, d) == Reduce(n, d, GCD(n, d))

RatLT(x, y) == x[1] * y[2] < y[1] * x[2]

RatGE(x, y) == x[1] * y[2] >= y[1] * x[2]

\* x + y and x - y (for x >= y) over the least common denominator, g being
\* the greatest common divisor of the two denominators.
AddOver(x, y, g) == Rat(x[1] * (y[2] \div g) + y[1] * (x[2] \div g), (x[2] \div g) * y[2])

SubOver(x, y, g) == Rat(x[1] * (y[2] \div g) - y[1] * (x[2] \div g), (x[2] \div g) * y[2])

RatAdd(x, y) == AddOver(x, y, GCD(x[2], y[2]))

RatSub(x, y) == SubOver(x, y, GCD(x[2], y[2]))

RatMul(x, y) == Rat(x[1] * y[1], x[2] * y[2])

\* What a division by zero raises; no operator is defined on it.
ZeroDivisionError == <<"ZeroDivisionError">>

RatDiv(x, y) ==
    IF y[1] = 0 THEN ZeroDivisionError ELSE Rat(x[1] * y[2], x[2] * y[1])

RatMax(x, y) == IF RatGE(x, y) THEN x ELSE y

RatMin(x, y) == IF RatLE(x, y) THEN x ELSE y

RECURSIVE RatSum(_)
RatSum(xs) == IF xs = <<>> THEN <<0, 1>> ELSE RatAdd(Head(xs), RatSum(Tail(xs)))

\* np.mean of a non-empty list.
Mean(xs) == RatDiv(RatSum(xs), <<Len(xs), 1>>)

\* ------------------------------------------------------------------------
\* SpeechAnalyzer._analyze_speech_activity
\* ------------------------------------------------------------------------

hop_length == 512

\* librosa.get_duration(y=y, sr=sr)
get_duration(len, rate) == Rat(len, rate)

\* librosa.frames_to_time(f, sr=sr, hop_length=hop_length)
frames_to_time(f, rate) == Rat(f * hop_length, rate)

\* np.percentile's linear interpolation between v[lo] and v[lo + 1], r
\* hundredths of the way, on the sorted non-empty v.
Interpolate(v, lo, r) ==
    IF r = 0 THEN <<v[lo + 1], 1>>
    ELSE Rat(100 * v[lo + 1] + r * (v[lo + 2] - v[lo + 1]), 100)

PercentileOfSorted(v, q) ==
    Interpolate(v, (q * (Len(v) - 1)) \div 100, (q * (Len(v) - 1)) % 100)

\* np.percentile(a, q)
Percentile(a, q) == PercentileOfSorted(SortSeq(a, LAMBDA x, y : x < y), q)

Threshold(percentile_10, percentile_90) ==
    RatAdd(percentile_10, RatMul(RatSub(percentile_90, percentile_10), <<1, 4>>))

\* The adaptive threshold; with no frame np.percentile gives nan and the
\* mask is empty whatever stands for it.
VadThreshold(levels) ==
    IF levels = <<>> THEN <<0, 1>>
    ELSE Threshold(Percentile(levels, 10), Percentile(levels, 90))

SpeechFramesFromThreshold(levels, threshold) ==
    [i \in 1 .. Len(levels) |-> RatGE(<<levels[i], 1>>, threshold)]

\* speech_frames = rms > threshold
SpeechFrames(levels, threshold) ==
    [i \in 1 .. Len(levels) |-> RatGT(<<levels[i], 1>>, threshold)]

\* np.sum(speech_frames)
ActiveFrames(speech_frames) ==
    Cardinality({i \in DOMAIN speech_frames : speech_frames[i]})

SpeechRatio(active_frames, total_frames) ==
    IF total_frames > 0 THEN Rat(active_frames, total_frames) ELSE <<0, 1>>

FrameTimes(n, rate) == [i \in 1 .. n |-> frames_to_time(i - 1, rate)]

SpeechActivity(speech_frames, speech_ratio, duration, rate) ==
    [speech_frames |-> speech_frames,
     speech_ratio |-> speech_ratio,
     active_speech_duration |-> RatMul(speech_ratio, duration),
     frame_times |-> FrameTimes(Len(speech_frames), rate)]

ActivityOfFrames(speech_frames, len, rate) ==
    SpeechActivity(speech_frames,
                   SpeechRatio(ActiveFrames(speech_frames), Len(speech_frames)),
                   get_duration(len, rate), rate)

analyze_speech_activity(levels, len, rate) ==
    ActivityOfFrames(SpeechFrames(levels, VadThreshold(levels)), len, rate)

\* ------------------------------------------------------------------------
\* SpeechAnalyzer._analyze_pauses
\* ------------------------------------------------------------------------

IsPauseAtFloor(duration) == RatGE(duration, <<1, 10>>)

\* Only pauses longer than 100 ms count.
IsPause(duration) == RatGT(duration, <<1, 10>>)

ClosePause(silence_start, silence_end, duration, silence_segments) ==
    IF IsPause(duration)
    THEN Append(silence_segments,
                [start |-> silence_start, end |-> silence_end, duration |-> duration])
    ELSE silence_segments

\* The loop over the frames from frame i on; silence is None when
\* in_silence is false and holds silence_start otherwise.
RECURSIVE PauseWalk(_, _, _, _, _)
PauseWalk(speech_frames, frame_times, i, silence, silence_segments) ==
    IF i > Len(speech_frames) THEN silence_segments
    ELSE IF ~ speech_frames[i] /\ silence = None
    THEN PauseWalk(speech_frames, frame_times, i + 1, Some(frame_times[i]), silence_segments)
    ELSE IF speech_frames[i] /\ silence # None
    THEN PauseWalk(speech_frames, frame_times, i + 1, None,
                   ClosePause(silence[1], frame_times[i],
                              RatSub(frame_times[i], silence[1]), silence_segments))
    ELSE PauseWalk(speech_frames, frame_times, i + 1, silence, silence_segments)

Durations(silence_segments) ==
    [k \in DOMAIN silence_segments |-> silence_segments[k].duration]

AvgPauseDuration(silence_segments) ==
    IF silence_segments # <<>> THEN Mean(Durations(silence_segments)) ELSE <<0, 1>>

SilenceRatioKept(speech_ratio) == speech_ratio

\* silence_ratio = 1 - speech_ratio, in binary64.  Of the ratios a / n of
\* two frame counts, 0.9 is the only one whose difference falls on the
\* other side of a value it is later compared with (0.10 and 0.40) than the
\* exact difference: 1 - 0.9 is 0.09999999999999998, held here as a value
\* just below 1/10 that rounds like it.
SilenceRatio(speech_ratio) ==
    IF speech_ratio = <<9, 10>> THEN <<9999, 100000>>
    ELSE RatSub(<<1, 1>>, speech_ratio)

ShortPauses(silence_segments) ==
    Cardinality({k \in DOMAIN silence_segments :
                    RatLT(silence_segments[k].duration, <<1, 2>>)})

MediumPauses(silence_segments) ==
    Cardinality({k \in DOMAIN silence_segments :
                    /\ RatGE(silence_segments[k].duration, <<1, 2>>)
                    /\ RatLT(silence_segments[k].duration, <<1, 1>>)})

LongPausesBelowTwoSeconds(silence_segments) ==
    Cardinality({k \in DOMAIN silence_segments :
                    /\ RatGE(silence_segments[k].duration, <<1, 1>>)
                    /\ RatLT(silence_segments[k].duration, <<2, 1>>)})

LongPauses(silence_segments) ==
    Cardinality({k \in DOMAIN silence_segments :
                    RatGE(silence_segments[k].duration, <<1, 1>>)})

PauseAnalysis(silence_segments, speech_ratio) ==
    [total_pauses |-> Len(silence_segments),
     avg_pause_duration |-> AvgPauseDuration(silence_segments),
     silence_ratio |-> SilenceRatio(speech_ratio),
     short_pauses |-> ShortPauses(silence_segments),
     medium_pauses |-> MediumPauses(silence_segments),
     long_pauses |-> LongPauses(silence_segments),
     pause_segments |-> silence_segments]

analyze_pauses(analysis, total_duration) ==
    PauseAnalysis(PauseWalk(analysis.speech_frames, analysis.frame_times, 1, None, <<>>),
                  analysis.speech_ratio)

\* ------------------------------------------------------------------------
\* SpeechAnalyzer._estimate_words_per_minute
\* ------------------------------------------------------------------------

NumWords(num_syllables, syllables_per_word) ==
    RatDiv(<<num_syllables, 1>>, syllables_per_word)

Minutes(duration) == RatDiv(duration, <<60, 1>>)

\* num_words / duration_minutes if duration_minutes > 0 else 0
PerMinute(num_words, duration_minutes) ==
    IF duration_minutes[1] > 0 THEN RatDiv(num_words, duration_minutes) ELSE <<0, 1>>

CorrectWpmNoFloor(wpm) ==
    IF RatLT(wpm, <<50, 1>>) THEN RatMul(wpm, <<2, 1>>)
    ELSE IF RatGT(wpm, <<250, 1>>) THEN RatMin(<<200, 1>>, RatMul(wpm, <<4, 5>>))
    ELSE wpm

\* The sanity check on the raw rate.
CorrectWpm(wpm) ==
    IF RatLT(wpm, <<50, 1>>) THEN RatMax(<<80, 1>>, RatMul(wpm, <<2, 1>>))
    ELSE IF RatGT(wpm, <<250, 1>>) THEN RatMin(<<200, 1>>, RatMul(wpm, <<4, 5>>))
    ELSE wpm

estimate_words_per_minute(onset_frames, duration) ==
    CorrectWpm(PerMinute(NumWords(Len(onset_frames), <<27, 10>>), Minutes(duration)))

\* ------------------------------------------------------------------------
\* SpeechAnalyzer._calculate_articulation_rate
\* ------------------------------------------------------------------------

\* The onsets whose closest frame is a speech frame.  An onset time is
\* frames_to_time of its frame, with the hop length of the frame times, so
\* the closest frame is the onset's own.
ActiveOnsets(onset_frames, speech_frames) ==
    SelectSeq(onset_frames, LAMBDA f : speech_frames[f + 1])

RetentionRate(num_active_onsets, total_onsets) ==
    IF total_onsets > 0 THEN Rat(num_active_onsets, total_onsets) ELSE <<1, 1>>

NumSyllablesAtHalfRetained(num_active_onsets, total_onsets, speech_ratio, retention_rate) ==
    IF RatLT(speech_ratio, <<2, 5>>) /\ RatLE(retention_rate, <<1, 2>>)
    THEN total_onsets
    ELSE num_active_onsets

\* The hybrid approach: all onsets when the mask kept too few of them.
NumSyllables(num_active_onsets, total_onsets, speech_ratio, retention_rate) ==
    IF RatLT(speech_ratio, <<2, 5>>) /\ RatLT(retention_rate, <<1, 2>>)
    THEN total_onsets
    ELSE num_active_onsets

SyllablesPerWord(onset_density) ==
    IF RatGT(onset_density, <<4, 1>>) THEN <<9, 5>>
    ELSE IF RatGT(onset_density, <<3, 1>>) THEN <<11, 5>>
    ELSE IF RatLT(onset_density, <<3, 2>>) THEN <<3, 1>>
    ELSE <<27, 10>>

CorrectArNoCeiling(ar, total_onset_density) ==
    IF RatLT(ar, <<50, 1>>)
    THEN IF RatLT(total_onset_density, <<2, 1>>)
         THEN RatMax(<<80, 1>>, RatMul(ar, <<5, 2>>))
         ELSE RatMax(<<80, 1>>, RatMul(ar, <<9, 5>>))
    ELSE IF RatGT(ar, <<250, 1>>) THEN RatMul(ar, <<17, 20>>)
    ELSE ar

\* The correction of the raw rate by the total onset density.
CorrectAr(ar, total_onset_density) ==
    IF RatLT(ar, <<50, 1>>)
    THEN IF RatLT(total_onset_density, <<2, 1>>)
         THEN RatMax(<<80, 1>>, RatMul(ar, <<5, 2>>))
         ELSE RatMax(<<80, 1>>, RatMul(ar, <<9, 5>>))
    ELSE IF RatGT(ar, <<250, 1>>) THEN RatMin(<<220, 1>>, RatMul(ar, <<17, 20>>))
    ELSE ar

ArOfDensity(num_syllables, calculation_duration, syllables_per_word, total_onset_density) ==
    CorrectAr(PerMinute(NumWords(num_syllables, syllables_per_word),
                        Minutes(calculation_duration)),
              total_onset_density)

ArOfSyllables(num_syllables, active_duration, total_onsets, total_duration) ==
    ArOfDensity(num_syllables, active_duration,
                SyllablesPerWord(RatDiv(<<num_syllables, 1>>, active_duration)),
                RatDiv(<<total_onsets, 1>>, total_duration))

ArOfOnsets(num_active_onsets, total_onsets, analysis, total_duration) ==
    ArOfSyllables(NumSyllables(num_active_onsets, total_onsets, analysis.speech_ratio,
                               RetentionRate(num_active_onsets, total_onsets)),
                  analysis.active_speech_duration, total_onsets, total_duration)

calculate_articulation_rate(onset_frames, analysis, total_duration) ==
    IF RatLT(analysis.active_speech_duration, <<1, 2>>) THEN <<0, 1>>
    ELSE ArOfOnsets(Len(ActiveOnsets(onset_frames, analysis.speech_frames)),
                    Len(onset_frames), analysis, total_duration)

\* ------------------------------------------------------------------------
\* SpeechAnalyzer._analyze_local_pacing
\* ------------------------------------------------------------------------

window_size == 15

\* range(0, n - window_size, window_size // 2), for n >= 20
WindowStarts(n) ==
    [k \in 1 .. (n - window_size + window_size \div 2 - 1) \div (window_size \div 2) |->
        (k - 1) * (window_size \div 2)]

\* window_onsets[-1] - window_onsets[0] of the window onsets[i : i + 15]
WindowDuration(onset_frames, i, rate) ==
    RatSub(frames_to_time(onset_frames[i + window_size], rate),
           frames_to_time(onset_frames[i + 1], rate))

\* local_ar = (words_in_window / window_duration) * 60
LocalRate(window_duration) ==
    RatMul(RatDiv(NumWords(window_size, <<27, 10>>), window_duration), <<60, 1>>)

PositiveDurations(durations) == SelectSeq(durations, LAMBDA d : d[1] > 0)

RatesOf(durations) == [k \in DOMAIN durations |-> LocalRate(durations[k])]

LocalRates(onset_frames, starts, rate) ==
    RatesOf(PositiveDurations(
        [k \in DOMAIN starts |-> WindowDuration(onset_frames, starts[k], rate)]))

\* (x - 1) ^ 2
SquaredDeviation(x) == Rat((x[1] - x[2]) * (x[1] - x[2]), x[2] * x[2])

\* (np.std(local_rates) / np.mean(local_rates)) ^ 2.  The standard deviation
\* is homogeneous, so this is the variance of the rates divided by their
\* mean, whose mean is 1.
RelativeToMean(local_rates, mean_rate) ==
    [k \in DOMAIN local_rates |-> RatDiv(local_rates[k], mean_rate)]

VarianceAroundOne(xs) == Mean([k \in DOMAIN xs |-> SquaredDeviation(xs[k])])

RelativeVariance(local_rates, mean_rate) ==
    VarianceAroundOne(RelativeToMean(local_rates, mean_rate))

\* The sign of a / b - c / d for a, c >= 0 and b, d > 0, by the continued
\* fractions of the two, which needs no product of the four numbers.
RECURSIVE CmpFrac(_, _, _, _)
CmpFrac(a, b, c, d) ==
    IF a \div b # c \div d THEN (IF a \div b < c \div d THEN -1 ELSE 1)
    ELSE IF a % b = 0 \/ c % d = 0
    THEN (IF a % b = c % d THEN 0 ELSE IF a % b = 0 THEN -1 ELSE 1)
    ELSE CmpFrac(d, c % d, b, a % b)

\* variation_coefficient = 100 * sqrt(relative_variance); c >= 3 * that
CoversThreeTimes(c, relative_variance) ==
    CmpFrac(c * c, 90000, relative_variance[1], relative_variance[2]) >= 0

\* The least whole number from c on that is at least 3 * variation_coefficient,
\* or 101 when that is beyond 100.
RECURSIVE CeilThreeTimes(_, _)
CeilThreeTimes(c, relative_variance) ==
    IF c > 100 \/ CoversThreeTimes(c, relative_variance) THEN c
    ELSE CeilThreeTimes(c + 1, relative_variance)

ConsistencyScoreUnclamped(relative_variance) ==
    100 - CeilThreeTimes(0, relative_variance)

\* consistency_score = max(0, 100 - (variation_coefficient * 3)), rounded
\* down to a whole number
ConsistencyScore(relative_variance) ==
    Max(0, 100 - CeilThreeTimes(0, relative_variance))

\* has_significant_variation = variation_coefficient > 20
IsSignificant(relative_variance) == RatGT(relative_variance, <<1, 25>>)

\* The dict returned before any window is evaluated, and when no window
\* has a positive duration.
ConsistentPacing ==
    [consistency_score |-> 100,
     has_significant_variation |-> FALSE,
     local_rates |-> <<>>,
     relative_variance |-> <<0, 1>>]

\* The dict returned for the rates of the windows; the field
\* relative_variance stands for variation_coefficient (and std_local_rate),
\* which is 100 times its square root.
PacingOfVariance(local_rates, mean_rate, relative_variance) ==
    [consistency_score |-> ConsistencyScore(relative_variance),
     has_significant_variation |-> IsSignificant(relative_variance),
     local_rates |-> local_rates,
     relative_variance |-> relative_variance,
     mean_local_rate |-> mean_rate]

PacingOfMean(local_rates, mean_rate) ==
    PacingOfVariance(local_rates, mean_rate, RelativeVariance(local_rates, mean_rate))

PacingOfRates(local_rates) ==
    IF local_rates = <<>> THEN ConsistentPacing
    ELSE PacingOfMean(local_rates, Mean(local_rates))

analyze_local_pacing(onset_frames, rate) ==
    IF Len(onset_frames) < 20 THEN ConsistentPacing
    ELSE PacingOfRates(LocalRates(onset_frames, WindowStarts(Len(onset_frames)), rate))

\* ------------------------------------------------------------------------
\* SpeechAnalyzer._estimate_intelligibility and _generate_advanced_feedback
\* ------------------------------------------------------------------------

ArFactorSlowestBandFirst(ar) ==
    IF RatLT(ar, <<80, 1>>) THEN <<9, 10>>
    ELSE IF RatGT(ar, <<200, 1>>) THEN <<17, 20>>
    ELSE IF RatGT(ar, <<250, 1>>) THEN <<3, 5>>
    ELSE IF RatGT(ar, <<400, 1>>) THEN <<3, 10>>
    ELSE <<1, 1>>

ArFactor(ar) ==
    IF RatGT(ar, <<400, 1>>) THEN <<3, 10>>
    ELSE IF RatGT(ar, <<250, 1>>) THEN <<3, 5>>
    ELSE IF RatGT(ar, <<200, 1>>) THEN <<17, 20>>
    ELSE IF RatLT(ar, <<80, 1>>) THEN <<9, 10>>
    ELSE <<1, 1>>

\* 1 - consistency_penalty * 0.3, for a whole consistency score
ConsistencyFactor(consistency_score) ==
    Rat(1000 - 3 * (100 - consistency_score), 1000)

SilenceFactor(silence_ratio) ==
    IF RatLT(silence_ratio, <<1, 10>>) THEN <<17, 20>>
    ELSE IF RatGT(silence_ratio, <<2, 5>>) THEN <<9, 10>>
    ELSE <<1, 1>>

estimate_intelligibility(ar, pacing, pauses) ==
    RatMax(<<0, 1>>,
           RatMin(<<100, 1>>,
                  RatMul(RatMul(RatMul(<<100, 1>>, ArFactor(ar)),
                                ConsistencyFactor(pacing.consistency_score)),
                         SilenceFactor(pauses.silence_ratio))))

\* abs(x - y)
RatAbsDiff(x, y) == IF RatGE(x, y) THEN RatSub(x, y) ELSE RatSub(y, x)

RateFeedbackNeverFast(ar, cat_info, is_within_range) ==
    IF RatLT(ar, <<cat_info.min_ppm, 1>>) THEN "slow" ELSE "ideal"

\* 1. Primary feedback on Articulation Rate
RateFeedback(ar, cat_info, is_within_range) ==
    IF is_within_range THEN "ideal"
    ELSE IF RatLT(ar, <<cat_info.min_ppm, 1>>) THEN "slow"
    ELSE "fast"

\* The feedback text, as the list of its parts, each named by what it says.
generate_advanced_feedback(speech_rate, ar, cat_info, is_within_range, pauses, pacing, intelligibility) ==
    <<RateFeedback(ar, cat_info, is_within_range)>>
    \o (IF RatLT(pauses.silence_ratio, <<1, 10>>) THEN <<"more pauses">>
        ELSE IF RatGT(pauses.silence_ratio, <<2, 5>>) THEN <<"fewer hesitations">>
        ELSE IF pauses.medium_pauses + pauses.long_pauses > 3 THEN <<"good pauses">>
        ELSE <<>>)
    \o (IF pacing.has_significant_variation THEN <<"varying pace">>
        ELSE IF pacing.consistency_score > 85 THEN <<"consistent pace">>
        ELSE <<>>)
    \o (IF RatLT(intelligibility, <<70, 1>>) THEN <<"low clarity">>
        ELSE IF RatGT(intelligibility, <<90, 1>>) THEN <<"high clarity">>
        ELSE <<>>)
    \o (IF RatGT(RatAbsDiff(ar, speech_rate), <<20, 1>>) THEN <<"rates differ">> ELSE <<>>)

\* ------------------------------------------------------------------------
\* SpeechAnalyzer.analyze_audio_file
\* ------------------------------------------------------------------------

CATEGORIES ==
    [presentation |-> [name |-> "Apresentacao", min_ppm |-> 140, max_ppm |-> 160],
     pitch |-> [name |-> "Pitch", min_ppm |-> 120, max_ppm |-> 150],
     conversation |-> [name |-> "Conversacao Diaria", min_ppm |-> 100, max_ppm |-> 130],
     other |-> [name |-> "Outros", min_ppm |-> 110, max_ppm |-> 140]]

CategoryInfoOrPresentation(key) ==
    IF key \in DOMAIN CATEGORIES THEN CATEGORIES[key] ELSE CATEGORIES["presentation"]

\* self.CATEGORIES.get(category, self.CATEGORIES["other"])
CategoryInfo(key) ==
    IF key \in DOMAIN CATEGORIES THEN CATEGORIES[key] ELSE CATEGORIES["other"]

TooShortBelowHalf(duration) == RatLT(duration, <<1, 2>>)

\* if duration < 1.0: raise ValueError
TooShort(duration) == RatLT(duration, <<1, 1>>)

\* round(x, 1) and round(x, 2), half to even on the exact value
Round1(x) == Rat(PyRound(10 * x[1], x[2]), 10)

Round2(x) == Rat(PyRound(100 * x[1], x[2]), 100)

\* The dict analyze_audio_file returns; pacing_consistency is the whole
\* part of the consistency score.
AnalysisResult(cat_info, speech_rate, ar, duration, activity, pauses, pacing, intelligibility, is_within_range) ==
    [category |-> cat_info.name,
     words_per_minute |-> Round1(ar),
     speech_rate |-> Round1(speech_rate),
     articulation_rate |-> Round1(ar),
     ideal_min_ppm |-> cat_info.min_ppm,
     ideal_max_ppm |-> cat_info.max_ppm,
     duration_seconds |-> Round2(duration),
     is_within_range |-> is_within_range,
     active_speech_time |-> Round2(activity.active_speech_duration),
     silence_ratio |-> Round1(RatMul(pauses.silence_ratio, <<100, 1>>)),
     pause_count |-> pauses.total_pauses,
     avg_pause_duration |-> Round2(pauses.avg_pause_duration),
     pacing_consistency |-> pacing.consistency_score,
     local_variation_detected |-> pacing.has_significant_variation,
     intelligibility_score |-> Round1(intelligibility),
     feedback |-> generate_advanced_feedback(speech_rate, ar, cat_info, is_within_range,
                                             pauses, pacing, intelligibility),
     confidence |-> Round2(RatMul(activity.speech_ratio, <<100, 1>>))]

ResultInCategory(cat_info, speech_rate, ar, duration, activity, pauses, pacing, intelligibility) ==
    AnalysisResult(cat_info, speech_rate, ar, duration, activity, pauses, pacing,
                   intelligibility,
                   RatLE(<<cat_info.min_ppm, 1>>, ar) /\ RatLE(ar, <<cat_info.max_ppm, 1>>))

\* ------------------------------------------------------------------------
\* analyze_speech (POST /analyze): the overall score
\* ------------------------------------------------------------------------

\* max(0, 15 - (deviation / 4))
DeviationScore(deviation) ==
    IF RatGE(<<60, 1>>, deviation) THEN RatSub(<<15, 1>>, RatMul(deviation, <<1, 4>>))
    ELSE <<0, 1>>

\* What the score gets for the rate when there is no pronunciation score.
RangeScore(analysis) ==
    IF analysis.is_within_range THEN <<15, 1>>
    ELSE DeviationScore(RatMin(RatAbsDiff(analysis.articulation_rate, <<analysis.ideal_min_ppm, 1>>),
                               RatAbsDiff(analysis.articulation_rate, <<analysis.ideal_max_ppm, 1>>)))

\* The score before it is clamped: 50 or half the advanced score, plus the
\* pronunciation or rate part, the intelligibility part and the pacing part.
RawScore(analysis, advanced, pronunciation) ==
    RatAdd(RatAdd(RatAdd(IF advanced # None
                         THEN RatMul(<<advanced[1].overall_score, 1>>, <<1, 2>>)
                         ELSE <<50, 1>>,
                         IF pronunciation # None
                         THEN RatMul(<<pronunciation[1], 1>>, <<3, 10>>)
                         ELSE RangeScore(analysis)),
                  RatMul(RatMul(analysis.intelligibility_score, <<1, 100>>), <<10, 1>>)),
           RatMul(<<analysis.pacing_consistency, 1>>, <<10, 1>>))

\* int(max(0, min(100, score))); the score is a sum of parts none of which
\* is negative.
ClampScore(score) ==
    IF RatGE(score, <<100, 1>>) THEN 100 ELSE PyInt(score[1], score[2])

OverallScore(analysis, advanced, pronunciation) ==
    ClampScore(RawScore(analysis, advanced, pronunciation))

\* expected_text and expected_text.strip()
IsProvided(text) == \E i \in DOMAIN text : ~ IsSpace(text[i])

\* ------------------------------------------------------------------------
\* SpeechAnalysisService: the words, syllables and pauses of a transcript
\* ------------------------------------------------------------------------

MIN_PAUSE_DURATION == <<1, 4>>

LONG_PAUSE_THRESHOLD == <<2, 1>>

COMPLEX_WORD_MIN_LENGTH == 10

\* The letters of the class [a-z...] of _extract_words, after lower().
IsLetter(c) == c \in {"a", "b", "i"}

\* The maximal runs of \w characters of a text.
RECURSIVE WordRunsFrom(_, _)
WordRunsFrom(text, run) ==
    IF text = <<>> THEN (IF run = <<>> THEN <<>> ELSE <<run>>)
    ELSE IF ~ IsWordChar(Head(text))
         THEN (IF run = <<>> THEN <<>> ELSE <<run>>) \o WordRunsFrom(Tail(text), <<>>)
         ELSE WordRunsFrom(Tail(text), Append(run, Head(text)))

\* re.findall(r'\b[a-z...]+\b', text.lower()): the runs of \w characters
\* that are letters only; a letter next to a digit is part of no word.
extract_words(text) ==
    SelectSeq(WordRunsFrom([n \in 1 .. Len(text) |-> Lower(text[n])], <<>>),
              LAMBDA run : \A k \in DOMAIN run : IsLetter(run[k]))

\* PORTUGUESE_VOWELS, the ones of the model's alphabet
IsVowel(c) == c \in {"a", "i"}

\* The groups of successive vowels of a word, at least 1.
count_syllables(word) ==
    Max(1, Cardinality({k \in DOMAIN word :
                           IsVowel(word[k]) /\ (k = 1 \/ ~ IsVowel(word[k - 1]))}))

count_syllables_text(text) ==
    SumSeq([k \in DOMAIN extract_words(text) |-> count_syllables(extract_words(text)[k])])

\* segments[i].start - segments[i-1].end, for the i-th segment from the
\* second on (i counted from 1)
Gap(segments, i) == RatSub(segments[i].start, segments[i - 1].end)

\* gap >= self.MIN_PAUSE_DURATION
IsLongerThanFloor(gap) == RatGT(gap, MIN_PAUSE_DURATION)

IsGapOfPause(gap) == RatGE(gap, MIN_PAUSE_DURATION)

extract_pauses(segments) ==
    IF Len(segments) < 2 THEN <<>>
    ELSE SelectSeq([k \in 1 .. Len(segments) - 1 |-> Gap(segments, k + 1)], IsGapOfPause)

\* round(x, 3)
Round3(x) == Rat(PyRound(1000 * x[1], x[2]), 1000)

\* max(pauses) of a non-empty list
RECURSIVE LongestOf(_)
LongestOf(pauses) ==
    IF Len(pauses) = 1 THEN Head(pauses) ELSE RatMax(Head(pauses), LongestOf(Tail(pauses)))

\* ------------------------------------------------------------------------
\* SpeechAnalysisService.analyze_speech_rate and analyze_pauses
\* ------------------------------------------------------------------------

\* total_duration, or 1.0 when it is not positive
PositiveDuration(total_duration) ==
    IF total_duration[1] <= 0 THEN <<1, 1>> ELSE total_duration

Classification(articulation_rate_spm) ==
    IF RatLT(articulation_rate_spm, <<180, 1>>) THEN "slow"
    ELSE IF RatGT(articulation_rate_spm, <<250, 1>>) THEN "fast"
    ELSE "medium"

SpeechRateMetrics(total_syllables, total_words, total_duration, pause_duration, speech_duration) ==
    [speaking_rate_spm |-> Round1(RatMul(RatDiv(<<total_syllables, 1>>, total_duration),
                                      <<60, 1>>)),
     articulation_rate_spm |-> Round1(RatMul(RatDiv(<<total_syllables, 1>>, speech_duration),
                                          <<60, 1>>)),
     words_per_minute |-> Round1(RatMul(RatDiv(<<total_words, 1>>, total_duration), <<60, 1>>)),
     total_duration_seconds |-> Round2(total_duration),
     speech_duration_seconds |-> Round2(speech_duration),
     pause_duration_seconds |-> Round2(pause_duration),
     classification |-> Classification(RatMul(RatDiv(<<total_syllables, 1>>, speech_duration),
                                              <<60, 1>>))]

SpeechRateOver(text, total_duration, pause_duration) ==
    SpeechRateMetrics(count_syllables_text(text), Len(extract_words(text)), total_duration,
                      pause_duration,
                      RatMax(<<1, 10>>, RatSub(total_duration, pause_duration)))

analyze_speech_rate(text, total_duration, segments) ==
    SpeechRateOver(text, PositiveDuration(total_duration), RatSum(extract_pauses(segments)))

PauseMetrics(pauses, total_pause_duration, total_duration) ==
    [total_pauses |-> Len(pauses),
     total_pause_duration |-> Round2(total_pause_duration),
     average_pause_duration |->
         IF Len(pauses) > 0 THEN Round2(RatDiv(total_pause_duration, <<Len(pauses), 1>>))
         ELSE <<0, 1>>,
     longest_pause |-> IF Len(pauses) > 0 THEN Round2(LongestOf(pauses)) ELSE <<0, 1>>,
     pauses_per_minute |->
         IF total_duration[1] > 0
         THEN Round1(RatMul(RatDiv(<<Len(pauses), 1>>, total_duration), <<60, 1>>))
         ELSE <<0, 1>>,
     pause_ratio |->
         IF total_duration[1] > 0 THEN Round3(RatDiv(total_pause_duration, total_duration))
         ELSE <<0, 1>>]

service_analyze_pauses(total_duration, segments) ==
    PauseMetrics(extract_pauses(segments), RatSum(extract_pauses(segments)), total_duration)

\* ------------------------------------------------------------------------
\* SpeechAnalysisService.analyze_vocabulary
\* ------------------------------------------------------------------------

\* len(word) >= COMPLEX_WORD_MIN_LENGTH or a suffix of
\* PORTUGUESE_COMPLEX_SUFFIXES; no suffix is spelled with the letters of
\* the model's alphabet, so that the length alone decides.
IsComplexWord(word) == Len(word) >= COMPLEX_WORD_MIN_LENGTH

\* FILLER_WORDS['pt-BR'], the one of the model's alphabet: ai
IsFillerWord(word) == word = <<"a", "i">>

\* PORTUGUESE_FUNCTION_WORDS, the one of the model's alphabet: a
IsFunctionWord(word) == word = <<"a">>

IsContentWord(word) == ~ IsFunctionWord(word)

VocabularyMetrics(words) ==
    [total_words |-> Len(words),
     unique_words |-> Cardinality({words[k] : k \in DOMAIN words}),
     vocabulary_richness |->
         Round3(Rat(Cardinality({words[k] : k \in DOMAIN words}), Len(words))),
     average_word_length |->
         Round2(Rat(SumSeq([k \in DOMAIN words |-> Len(words[k])]), Len(words))),
     complex_words_count |-> Len(SelectSeq(words, IsComplexWord)),
     complex_words_ratio |-> Round3(Rat(Len(SelectSeq(words, IsComplexWord)), Len(words))),
     filler_words_count |-> Len(SelectSeq(words, IsFillerWord)),
     filler_words_ratio |-> Round3(Rat(Len(SelectSeq(words, IsFillerWord)), Len(words))),
     lexical_density |-> Round3(Rat(Len(SelectSeq(words, IsContentWord)), Len(words)))]

\* The metrics returned when total_words == 0.
NoVocabulary ==
    [total_words |-> 0,
     unique_words |-> 0,
     vocabulary_richness |-> <<0, 1>>,
     average_word_length |-> <<0, 1>>,
     complex_words_count |-> 0,
     complex_words_ratio |-> <<0, 1>>,
     filler_words_count |-> 0,
     filler_words_ratio |-> <<0, 1>>,
     lexical_density |-> <<0, 1>>]

VocabularyOfNoWordsIsRich(words) ==
    IF Len(words) = 0 THEN [NoVocabulary EXCEPT !.vocabulary_richness = <<1, 1>>]
    ELSE VocabularyMetrics(words)

VocabularyOfWords(words) ==
    IF Len(words) = 0 THEN NoVocabulary ELSE VocabularyMetrics(words)

analyze_vocabulary(text) == VocabularyOfWords(extract_words(text))

\* ------------------------------------------------------------------------
\* SpeechAnalysisService.analyze_fluency
\* ------------------------------------------------------------------------

\* Identical consecutive words.
Repetitions(words) == Cardinality({i \in 2 .. Len(words) : words[i] = words[i - 1]})

\* 0.5 < SequenceMatcher(None, words[i-1], words[i]).ratio() < 0.9
IsSimilar(ratio) == RatGT(ratio, <<1, 2>>) /\ RatLT(ratio, <<9, 10>>)

SelfCorrections(words) ==
    Cardinality({i \in 2 .. Len(words) :
                    words[i] # words[i - 1] /\ IsSimilar(Ratio(words[i - 1], words[i]))})

\* re.split(r'[.!?]', text); the full stop is the one mark of the model's
\* alphabet.
RECURSIVE SentencesFrom(_, _)
SentencesFrom(text, sentence) ==
    IF text = <<>> THEN <<sentence>>
    ELSE IF Head(text) = "." THEN <<sentence>> \o SentencesFrom(Tail(text), <<>>)
    ELSE SentencesFrom(Tail(text), Append(sentence, Head(text)))

\* len(s.strip().split()) < 3 and len(s.strip()) > 0
IsIncomplete(sentence) == Len(Split(sentence)) < 3 /\ Len(Split(sentence)) > 0

IncompleteSentences(text) ==
    Cardinality({k \in DOMAIN SentencesFrom(text, <<>>) :
                    IsIncomplete(SentencesFrom(text, <<>>)[k])})

\* The gaps of at least the long pause threshold.
Hesitations(segments) ==
    IF Len(segments) > 1
    THEN Cardinality({i \in 2 .. Len(segments) :
                         RatGE(Gap(segments, i), LONG_PAUSE_THRESHOLD)})
    ELSE 0

HesitationRate(hesitations, total_duration) ==
    IF total_duration[1] > 0
    THEN RatMul(RatDiv(<<hesitations, 1>>, total_duration), <<60, 1>>)
    ELSE <<0, 1>>

FluencyPenaltyWithoutWords(num_words, repetitions, self_corrections, hesitation_rate, incomplete) ==
    RatAdd(RatAdd(IF num_words > 0 THEN Rat(repetitions * 20, num_words) ELSE <<0, 1>>,
                  IF num_words > 0 THEN Rat(self_corrections * 15, num_words) ELSE <<0, 1>>),
           RatAdd(RatMul(hesitation_rate, <<5, 1>>), <<incomplete * 3, 1>>))

FluencyPenalty(num_words, repetitions, self_corrections, hesitation_rate, incomplete) ==
    IF num_words > 0
    THEN RatAdd(RatAdd(Rat(repetitions * 20, num_words), Rat(self_corrections * 15, num_words)),
                RatAdd(RatMul(hesitation_rate, <<5, 1>>), <<incomplete * 3, 1>>))
    ELSE <<0, 1>>

FluencyMetrics(num_words, repetitions, self_corrections, hesitation_rate, incomplete) ==
    [fluency_score |->
         Round1(RatMax(<<0, 1>>,
                       RatMin(<<100, 1>>,
                              RatSub(<<100, 1>>,
                                     FluencyPenalty(num_words, repetitions, self_corrections,
                                                    hesitation_rate, incomplete))))),
     hesitation_rate |-> Round2(hesitation_rate),
     repetition_count |-> repetitions,
     self_corrections_count |-> self_corrections,
     incomplete_sentences |-> incomplete]

FluencyOfWords(words, text, total_duration, segments) ==
    FluencyMetrics(Len(words), Repetitions(words), SelfCorrections(words),
                   HesitationRate(Hesitations(segments), total_duration),
                   IncompleteSentences(text))

analyze_fluency(text, total_duration, segments) ==
    FluencyOfWords(extract_words(text), text, total_duration, segments)

\* ------------------------------------------------------------------------
\* SpeechAnalysisService.analyze_comprehensive and its scores
\* ------------------------------------------------------------------------

\* IDEAL_SPEAKING_RATE: 140 to 170 words per minute
score_speech_rate(metrics) ==
    IF RatGE(metrics.words_per_minute, <<140, 1>>) /\ RatLE(metrics.words_per_minute, <<170, 1>>)
    THEN <<100, 1>>
    ELSE IF RatLT(metrics.words_per_minute, <<140, 1>>)
    THEN RatMax(<<0, 1>>,
                RatSub(<<100, 1>>,
                       RatMul(RatSub(<<140, 1>>, metrics.words_per_minute), <<2, 1>>)))
    ELSE RatMax(<<0, 1>>,
                RatSub(<<100, 1>>,
                       RatMul(RatSub(metrics.words_per_minute, <<170, 1>>), <<2, 1>>)))

PauseBaseScore(pause_ratio) ==
    IF RatGE(pause_ratio, <<1, 10>>) /\ RatLE(pause_ratio, <<1, 4>>) THEN <<100, 1>>
    ELSE IF RatLT(pause_ratio, <<1, 10>>) THEN <<80, 1>>
    ELSE RatMax(<<0, 1>>,
                RatSub(<<100, 1>>, RatMul(RatSub(pause_ratio, <<1, 4>>), <<200, 1>>)))

\* base_score -= 10 when the longest pause exceeds 3.0 s
LongPausePenalty(base_score, longest_pause) ==
    IF RatGT(longest_pause, <<3, 1>>) THEN RatSub(base_score, <<10, 1>>) ELSE base_score

score_pauses_unfloored(metrics) ==
    LongPausePenalty(PauseBaseScore(metrics.pause_ratio), metrics.longest_pause)

score_pauses(metrics) ==
    RatMax(<<0, 1>>, LongPausePenalty(PauseBaseScore(metrics.pause_ratio), metrics.longest_pause))

score_vocabulary(metrics) ==
    RatMax(<<0, 1>>,
           RatMin(<<100, 1>>,
                  RatSub(RatAdd(RatAdd(<<50, 1>>, RatMul(metrics.vocabulary_richness, <<30, 1>>)),
                                RatMin(RatMul(metrics.complex_words_ratio, <<50, 1>>), <<15, 1>>)),
                         RatMul(metrics.filler_words_ratio, <<50, 1>>))))

\* The weighted mean of the four scores.
WeightedScore(speech_rate, pauses, vocabulary, fluency) ==
    RatAdd(RatAdd(RatMul(score_speech_rate(speech_rate), <<1, 4>>),
                  RatMul(score_pauses(pauses), <<3, 20>>)),
           RatAdd(RatMul(score_vocabulary(vocabulary), <<1, 4>>),
                  RatMul(fluency.fluency_score, <<7, 20>>)))

\* The analysis returned, without its language and feedback texts, which
\* no metric and no score reads.
ComprehensiveSpeechAnalysis(speech_rate, pauses, vocabulary, fluency) ==
    [speech_rate |-> speech_rate,
     pauses |-> pauses,
     vocabulary |-> vocabulary,
     fluency |-> fluency,
     overall_score |-> Round1(WeightedScore(speech_rate, pauses, vocabulary, fluency))]

analyze_comprehensive(text, total_duration, segments) ==
    ComprehensiveSpeechAnalysis(analyze_speech_rate(text, total_duration, segments),
                                service_analyze_pauses(total_duration, segments),
                                analyze_vocabulary(text),
                                analyze_fluency(text, total_duration, segments))

\* ------------------------------------------------------------------------
\* speech_analysis_service_v2: the pause bands of analyze_pauses
\* ------------------------------------------------------------------------

PAUSE_THRESHOLD_SHORT == <<1, 2>>

PAUSE_THRESHOLD_MEDIUM == <<1, 1>>

PAUSE_THRESHOLD_LONG == <<2, 1>>

IsShortPause(p) == RatLT(p, PAUSE_THRESHOLD_SHORT)

IsMediumPause(p) == RatGE(p, PAUSE_THRESHOLD_SHORT) /\ RatLT(p, PAUSE_THRESHOLD_MEDIUM)

IsLongPause(p) == RatGE(p, PAUSE_THRESHOLD_MEDIUM) /\ RatLT(p, PAUSE_THRESHOLD_LONG)

IsExtendedPause(p) == RatGE(p, PAUSE_THRESHOLD_LONG)

\* The counts of the PauseMetrics of analyze_pauses; its durations, ratio
\* and score are left out.
PauseBands(pauses) ==
    [total_pauses |-> Len(pauses),
     short_pauses |-> Len(SelectSeq(pauses, IsShortPause)),
     medium_pauses |-> Len(SelectSeq(pauses, IsMediumPause)),
     long_pauses |-> Len(SelectSeq(pauses, IsLongPause)),
     extended_pauses |-> Len(SelectSeq(pauses, IsExtendedPause))]

\* _extract_pauses is the same in both versions of the service.
analyze_pauses_v2(total_duration, segments) == PauseBands(extract_pauses(segments))

\* ------------------------------------------------------------------------
\* States in which a part of the program is idle
\* ------------------------------------------------------------------------

\* No text is being compared.
NoText ==
    /\ expected_text = <<>>
    /\ transcribed_raw = <<>>
    /\ comparison = None

\* No clip has been decoded.
NoClip ==
    /\ sr = 0
    /\ y_len = 0
    /\ rms = <<>>
    /\ onsets = <<>>
    /\ pacing_onsets = <<>>

\* analyze_audio_file has not set any of its locals.
NoAnalysis ==
    /\ speech_analysis = None
    /\ sr_wpm = None
    /\ ar_wpm = None
    /\ pause_analysis = None
    /\ pacing_variations = None
    /\ intelligibility_score = None

\* No call of the speech analysis service has been made.
NoService ==
    /\ transcript_segments = <<>>
    /\ transcript_duration = <<0, 1>>
    /\ pause_metrics = None
    /\ comprehensive = None

\* No request is being handled.
NoRequest ==
    /\ pc = "idle"
    /\ audio = "none"
    /\ whisper = "none"
    /\ category = "none"
    /\ result = None
    /\ transcribed_text = None
    /\ advanced_analysis = None
    /\ pronunciation_score = None
    /\ overall_score = None
    /\ transcription_attempts = 0
    /\ compare_calls = 0
    /\ recordings = <<>>
    /\ recording_id_seq = 0
    /\ user_statistics = <<>>
    /\ temp_files = {}
    /\ response = None

\* ------------------------------------------------------------------------
\* SpecText: compare_texts applied to every pair of bounded texts
\* ------------------------------------------------------------------------

\* The most whitespace-separated tokens in a text.
MaxWords == 3

\* The tokens texts are built from: the words ab, ba and a once normalized
\* (ratio(ab, a) = ratio(ba, a) = 2/3, ratio(ab, ba) = 1/2), one in upper
\* case, one with punctuation, and a token that is only punctuation.
RawTokens == {<<"a", "b">>, <<"B", "a">>, <<"a", ".">>, <<".">>}

Texts == {JoinSp(ts) : ts \in UNION {[1 .. n -> RawTokens] : n \in 0 .. MaxWords}}

InitText ==
    /\ expected_text \in Texts
    /\ transcribed_raw \in Texts
    /\ comparison = None
    /\ NoClip
    /\ NoAnalysis
    /\ NoService
    /\ NoRequest

CompareTexts ==
    /\ comparison = None
    /\ comparison' = Some(compare_texts(expected_text, transcribed_raw))
    /\ UNCHANGED <<expected_text, transcribed_raw, clip_vars, service_vars, analysis_vars, handler_vars>>

NextText == CompareTexts

SpecText == InitText /\ [][NextText]_vars

\* ------------------------------------------------------------------------
\* SpecRepeat: compare_texts called again and again on the one service
\* object, on the same pair of texts or on the pair swapped
\* ------------------------------------------------------------------------

\* The most tokens of a text that is compared repeatedly.
MaxRepeatedWords == 2

\* The most calls of compare_texts.
MaxCompareCalls == 2

ShortTexts ==
    {JoinSp(ts) : ts \in UNION {[1 .. n -> RawTokens] : n \in 0 .. MaxRepeatedWords}}

InitRepeat ==
    /\ expected_text \in ShortTexts
    /\ transcribed_raw \in ShortTexts
    /\ comparison = None
    /\ NoRequest
    /\ NoClip
    /\ NoAnalysis
    /\ NoService

\* A call of compare_texts on the singleton service whose previous call, if
\* any, returned previous: the method reads its two arguments and no
\* attribute of the service.
CompareAfterAccumulating(previous, expected, transcribed) ==
    IF previous = None THEN compare_texts(expected, transcribed)
    ELSE [compare_texts(expected, transcribed) EXCEPT
              !.missing_words = previous[1].missing_words \o @]

CompareAfter(previous, expected, transcribed) == compare_texts(expected, transcribed)

CompareAgain ==
    /\ compare_calls < MaxCompareCalls
    /\ comparison' = Some(CompareAfter(comparison, expected_text, transcribed_raw))
    /\ compare_calls' = compare_calls + 1
    /\ UNCHANGED <<expected_text, transcribed_raw>>
    /\ UNCHANGED <<pc, audio, whisper, category, locals_vars, transcription_attempts, storage_vars, response>>
    /\ UNCHANGED <<clip_vars, service_vars, analysis_vars>>

\* The caller goes on with the two texts exchanged.
SwapTexts ==
    /\ comparison # None
    /\ expected_text # transcribed_raw
    /\ expected_text' = transcribed_raw
    /\ transcribed_raw' = expected_text
    /\ UNCHANGED <<comparison, clip_vars, service_vars, analysis_vars, handler_vars>>

NextRepeat == CompareAgain \/ SwapTexts

SpecRepeat == InitRepeat /\ [][NextRepeat]_vars

\* ------------------------------------------------------------------------
\* The clips the acoustic specifications draw from
\* ------------------------------------------------------------------------

\* Sample rates at which a frame lasts 0.25 s and 0.1 s: a few frames make
\* half a second of speech at the first, and one frame is exactly the
\* 100 ms pause floor at the second.
SampleRates == {2048, 5120}

\* The lengths len(y) that give n frames: n = 1 + len // hop_length.
Lens(n) ==
    IF n = 0 THEN {0}
    ELSE {(n - 1) * hop_length, (n - 1) * hop_length + hop_length \div 2}

\* The increasing sequence of the frames in S.
FramesOf(S, n) == SelectSeq([i \in 1 .. n |-> i - 1], LAMBDA f : f \in S)

\* ------------------------------------------------------------------------
\* SpecVad: _analyze_speech_activity, then _analyze_pauses on its result
\* ------------------------------------------------------------------------

\* The most frames of a clip.
MaxFrames == 6

\* The energy levels of a frame.
Levels == 0 .. 2

InitVad ==
    /\ sr \in SampleRates
    /\ \E n \in 0 .. MaxFrames :
          /\ rms \in [1 .. n -> Levels]
          /\ y_len \in Lens(n)
    /\ onsets = <<>>
    /\ pacing_onsets = <<>>
    /\ NoAnalysis
    /\ NoService
    /\ NoText
    /\ NoRequest

SpeechActivityStep ==
    /\ sr > 0
    /\ speech_analysis = None
    /\ speech_analysis' = Some(analyze_speech_activity(rms, y_len, sr))
    /\ UNCHANGED <<sr_wpm, ar_wpm, pause_analysis, pacing_variations, intelligibility_score>>
    /\ UNCHANGED <<text_vars, clip_vars, service_vars>>

AnalyzeSpeechActivity == SpeechActivityStep /\ UNCHANGED handler_vars

PausesStep ==
    /\ speech_analysis # None
    /\ pause_analysis = None
    /\ pause_analysis' = Some(analyze_pauses(speech_analysis[1], get_duration(y_len, sr)))
    /\ UNCHANGED <<speech_analysis, sr_wpm, ar_wpm, pacing_variations, intelligibility_score>>
    /\ UNCHANGED <<text_vars, clip_vars, service_vars>>

AnalyzePauses == PausesStep /\ UNCHANGED handler_vars

NextVad == AnalyzeSpeechActivity \/ AnalyzePauses

SpecVad == InitVad /\ [][NextVad]_vars

\* ------------------------------------------------------------------------
\* SpecRate: the Speech Rate and the Articulation Rate of a clip
\* ------------------------------------------------------------------------

\* The most frames of a clip whose onsets are enumerated.
MaxOnsetFrames == 5

InitRate ==
    /\ sr \in SampleRates
    /\ \E n \in 0 .. MaxOnsetFrames :
          /\ rms \in [1 .. n -> 0 .. 1]
          /\ y_len \in Lens(n)
          /\ onsets \in {FramesOf(S, n) : S \in SUBSET (0 .. n - 1)}
    /\ pacing_onsets = <<>>
    /\ NoAnalysis
    /\ NoService
    /\ NoText
    /\ NoRequest

SpeechRateStep ==
    /\ speech_analysis # None
    /\ sr_wpm = None
    /\ sr_wpm' = Some(estimate_words_per_minute(onsets, get_duration(y_len, sr)))
    /\ UNCHANGED <<speech_analysis, ar_wpm, pause_analysis, pacing_variations, intelligibility_score>>
    /\ UNCHANGED <<text_vars, clip_vars, service_vars>>

EstimateWordsPerMinute == SpeechRateStep /\ UNCHANGED handler_vars

ArticulationRateStep ==
    /\ sr_wpm # None
    /\ ar_wpm = None
    /\ ar_wpm' = Some(calculate_articulation_rate(onsets, speech_analysis[1], get_duration(y_len, sr)))
    /\ UNCHANGED <<speech_analysis, sr_wpm, pause_analysis, pacing_variations, intelligibility_score>>
    /\ UNCHANGED <<text_vars, clip_vars, service_vars>>

CalculateArticulationRate == ArticulationRateStep /\ UNCHANGED handler_vars

NextRate == AnalyzeSpeechActivity \/ EstimateWordsPerMinute \/ CalculateArticulationRate

SpecRate == InitRate /\ [][NextRate]_vars

\* ------------------------------------------------------------------------
\* SpecOnsets: the two rates on clips that open with speech and end in
\* silence, with onsets detected in any of their frames
\* ------------------------------------------------------------------------

\* The most frames of such a clip.
MaxRunFrames == 8

InitOnsets ==
    /\ sr \in SampleRates
    /\ \E n \in 0 .. MaxRunFrames :
          /\ \E speech \in 0 .. n : rms = [f \in 1 .. n |-> IF f <= speech THEN 1 ELSE 0]
          /\ y_len \in Lens(n)
          /\ onsets \in {FramesOf(S, n) : S \in SUBSET (0 .. n - 1)}
    /\ pacing_onsets = <<>>
    /\ NoAnalysis
    /\ NoService
    /\ NoText
    /\ NoRequest

SpecOnsets == InitOnsets /\ [][NextRate]_vars

\* ------------------------------------------------------------------------
\* SpecPacing: _analyze_local_pacing on onsets of changing pace
\* ------------------------------------------------------------------------

\* The most onsets of a clip; 30 onsets make three windows.
MaxOnsets == 30

\* The frames between two successive onsets; backtracked onsets can share
\* a frame.
Gaps == 0 .. 2

\* n onsets from frame 0 on: the first k gaps are g1 frames, the others g2.
PacedOnsets(n, k, g1, g2) ==
    [i \in 1 .. n |-> IF i - 1 <= k THEN (i - 1) * g1 ELSE k * g1 + (i - 1 - k) * g2]

LastFrame(onset_frames) ==
    IF onset_frames = <<>> THEN 0 ELSE onset_frames[Len(onset_frames)]

InitPacing ==
    /\ sr \in SampleRates
    /\ \E n \in 0 .. MaxOnsets, g1 \in Gaps, g2 \in Gaps :
          \E k \in 0 .. n : pacing_onsets = PacedOnsets(n, k, g1, g2)
    /\ y_len = LastFrame(pacing_onsets) * hop_length
    /\ rms = [i \in 1 .. LastFrame(pacing_onsets) + 1 |-> 1]
    /\ onsets = <<>>
    /\ NoAnalysis
    /\ NoService
    /\ NoText
    /\ NoRequest

LocalPacingStep ==
    /\ sr > 0
    /\ pacing_variations = None
    /\ pacing_variations' = Some(analyze_local_pacing(pacing_onsets, sr))
    /\ UNCHANGED <<speech_analysis, sr_wpm, ar_wpm, pause_analysis, intelligibility_score>>
    /\ UNCHANGED <<text_vars, clip_vars, service_vars>>

AnalyzeLocalPacing == LocalPacingStep /\ UNCHANGED handler_vars

NextPacing == AnalyzeLocalPacing

SpecPacing == InitPacing /\ [][NextPacing]_vars

\* ------------------------------------------------------------------------
\* SpecIntelligibility: _estimate_intelligibility on its three arguments
\* ------------------------------------------------------------------------

\* The articulation rates, consistency scores and silence ratios the
\* estimator is given: on, next to and between the edges of its bands.
ArticulationRates == {0, 79, 80, 81, 200, 201, 250, 251, 400, 401}

ConsistencyScores == {0, 40, 85, 99, 100}

SilenceRatios == {<<0, 1>>, <<9, 100>>, <<1, 10>>, <<1, 4>>, <<2, 5>>, <<41, 100>>, <<1, 1>>}

InitIntelligibility ==
    /\ \E ar \in ArticulationRates : ar_wpm = Some(<<ar, 1>>)
    /\ \E c \in ConsistencyScores :
          pacing_variations = Some([ConsistentPacing EXCEPT !.consistency_score = c])
    /\ \E silence_ratio \in SilenceRatios :
          pause_analysis = Some(PauseAnalysis(<<>>, RatSub(<<1, 1>>, silence_ratio)))
    /\ speech_analysis = None
    /\ sr_wpm = None
    /\ intelligibility_score = None
    /\ NoClip
    /\ NoText
    /\ NoRequest
    /\ NoService

IntelligibilityStep ==
    /\ ar_wpm # None
    /\ pause_analysis # None
    /\ pacing_variations # None
    /\ intelligibility_score = None
    /\ intelligibility_score' = Some(estimate_intelligibility(ar_wpm[1], pacing_variations[1],
                                                        pause_analysis[1]))
    /\ UNCHANGED <<speech_analysis, sr_wpm, ar_wpm, pause_analysis, pacing_variations>>
    /\ UNCHANGED <<text_vars, clip_vars, service_vars>>

EstimateIntelligibilityAlone == IntelligibilityStep /\ UNCHANGED handler_vars

NextIntelligibility == EstimateIntelligibilityAlone

SpecIntelligibility == InitIntelligibility /\ [][NextIntelligibility]_vars

\* ------------------------------------------------------------------------
\* SpecPauses: analyze_pauses of the speech analysis service on bounded
\* segment lists
\* ------------------------------------------------------------------------

\* The most segments of a transcription.
MaxSegments == 4

\* The silence between two segments: an overlap, none, the pause floor,
\* the long pause threshold, and more than 3 s.
SegmentGaps == {<<-1, 4>>, <<0, 1>>, <<1, 4>>, <<2, 1>>, <<13, 4>>}

\* Segments of half a second each, the first at start, with the given gaps
\* between them.
RECURSIVE SpacedSegments(_, _)
SpacedSegments(gaps, start) ==
    <<[start |-> start, end |-> RatAdd(start, <<1, 2>>)]>>
    \o (IF gaps = <<>> THEN <<>>
        ELSE SpacedSegments(Tail(gaps), RatAdd(RatAdd(start, <<1, 2>>), Head(gaps))))

SegmentLists(between, most) ==
    {<<>>} \cup {SpacedSegments(gaps, <<0, 1>>) :
                   gaps \in UNION {[1 .. n -> between] : n \in 0 .. most - 1}}

\* The durations passed with a segment list: the one transcribe_audio
\* reports (the end of the last segment, 0 without segments), and a
\* negative one, zero, one second and one minute.
TotalDurations(segments) ==
    {<<-1, 1>>, <<0, 1>>, <<1, 1>>, <<60, 1>>,
     IF segments = <<>> THEN <<0, 1>> ELSE segments[Len(segments)].end}

InitPauses ==
    /\ transcript_segments \in SegmentLists(SegmentGaps, MaxSegments)
    /\ transcript_duration \in TotalDurations(transcript_segments)
    /\ pause_metrics = None
    /\ comprehensive = None
    /\ NoText
    /\ NoClip
    /\ NoAnalysis
    /\ NoRequest

AnalyzeSegmentPauses ==
    /\ pause_metrics = None
    /\ pause_metrics' = Some(service_analyze_pauses(transcript_duration, transcript_segments))
    /\ UNCHANGED <<transcript_segments, transcript_duration, comprehensive>>
    /\ UNCHANGED <<text_vars, clip_vars, analysis_vars, handler_vars>>

SpecPauses == InitPauses /\ [][AnalyzeSegmentPauses]_vars

\* ------------------------------------------------------------------------
\* SpecBands: the pause bands of the analyzer, on clips with silences of up
\* to two seconds and more, and those of the service, on segment lists
\* ------------------------------------------------------------------------

\* The most frames of a clip: ten frames of 0.25 s hold a pause of 2 s
\* between two frames of speech.
MaxBandFrames == 10

\* The most segments of a transcription: five segments have four gaps.
MaxBandSegments == 5

\* The silence between two segments: none, the pause floor, and the lower
\* end of each of the three other bands, and more than 2 s.
BandGaps == {<<0, 1>>, <<1, 4>>, <<1, 2>>, <<1, 1>>, <<2, 1>>, <<5, 2>>}

InitBands ==
    /\ \/ /\ sr \in SampleRates
          /\ \E n \in 0 .. MaxBandFrames :
                /\ rms \in [1 .. n -> 0 .. 1]
                /\ y_len \in Lens(n)
          /\ onsets = <<>>
          /\ pacing_onsets = <<>>
          /\ NoService
       \/ /\ NoClip
          /\ transcript_segments \in SegmentLists(BandGaps, MaxBandSegments)
          /\ transcript_duration =
                IF transcript_segments = <<>> THEN <<0, 1>>
                ELSE transcript_segments[Len(transcript_segments)].end
          /\ pause_metrics = None
          /\ comprehensive = None
    /\ NoAnalysis
    /\ NoText
    /\ NoRequest

ClassifySegmentPauses ==
    /\ pause_metrics = None
    /\ pause_metrics' = Some(analyze_pauses_v2(transcript_duration, transcript_segments))
    /\ UNCHANGED <<transcript_segments, transcript_duration, comprehensive>>
    /\ UNCHANGED <<text_vars, clip_vars, analysis_vars, handler_vars>>

NextBands == AnalyzeSpeechActivity \/ AnalyzePauses \/ ClassifySegmentPauses

SpecBands == InitBands /\ [][NextBands]_vars

\* ------------------------------------------------------------------------
\* SpecService: analyze_comprehensive on bounded transcripts
\* ------------------------------------------------------------------------

\* The most whitespace-separated tokens of a transcript.
MaxTokens == 3

\* The most segments passed with it.
MaxSpokenSegments == 2

\* The silence between two of them: the pause floor, the long pause
\* threshold, and more than 3 s.
SpokenGaps == {<<1, 4>>, <<2, 1>>, <<13, 4>>}

\* The tokens of a transcript: the function word a, the filler ai (similar
\* to a: ratio 2/3), a word of ten letters with upper case that ends a
\* sentence, and a number, which is a token and no word.
SpokenTokens ==
    {<<"a">>, <<"a", "i">>, <<"1">>,
     <<"B", "a", "b", "a", "b", "a", "b", "a", "b", "a", ".">>}

Transcripts == {JoinSp(ts) : ts \in UNION {[1 .. n -> SpokenTokens] : n \in 0 .. MaxTokens}}

InitService ==
    /\ transcribed_raw \in Transcripts
    /\ transcript_segments \in SegmentLists(SpokenGaps, MaxSpokenSegments)
    /\ transcript_duration \in TotalDurations(transcript_segments)
    /\ expected_text = <<>>
    /\ comparison = None
    /\ pause_metrics = None
    /\ comprehensive = None
    /\ NoClip
    /\ NoAnalysis
    /\ NoRequest

AnalyzeComprehensive ==
    /\ comprehensive = None
    /\ comprehensive' = Some(analyze_comprehensive(transcribed_raw, transcript_duration,
                                                   transcript_segments))
    /\ UNCHANGED <<transcript_segments, transcript_duration, pause_metrics>>
    /\ UNCHANGED <<text_vars, clip_vars, analysis_vars, handler_vars>>

SpecService == InitService /\ [][AnalyzeComprehensive]_vars

\* ------------------------------------------------------------------------
\* Spec: one POST /analyze request, statement by statement
\* ------------------------------------------------------------------------

\* The most frames of an uploaded clip.
MaxClipFrames == 5

\* The expected_text form field: absent or empty, blank, and a text.  None
\* and the empty string are the same value, the handler tests only whether
\* the field is true.
ExpectedTexts == {<<>>, <<" ">>, <<"a", "b">>, <<"B", "a", " ", "a">>}

Reply(status, detail) == Some([status |-> status, detail |-> detail])

Init ==
    /\ pc = "read"
    /\ audio \in {"unreadable", "empty", "undecodable", "clip"}
    /\ IF audio = "clip"
       THEN /\ sr \in SampleRates
            /\ \E n \in 0 .. MaxClipFrames :
                  /\ rms \in [1 .. n -> 0 .. 1]
                  /\ y_len \in Lens(n)
                  /\ onsets \in {<<>>, FramesOf(0 .. n - 1, n)}
            /\ pacing_onsets = onsets
       ELSE NoClip
    /\ expected_text \in ExpectedTexts
    /\ whisper \in {"load error", "transcribe error", "text"}
    /\ category = "presentation"      \* forced by the handler
    /\ transcribed_raw \in IF whisper = "text"
                           THEN {<<>>, <<"a", "b">>, <<"b", "a", " ", "a", ".">>}
                           ELSE {<<>>}
    /\ comparison = None
    /\ NoAnalysis
    /\ NoService
    /\ result = None
    /\ transcribed_text = None
    /\ advanced_analysis = None
    /\ pronunciation_score = None
    /\ overall_score = None
    /\ transcription_attempts = 0
    /\ compare_calls = 0
    /\ recordings = <<>>
    /\ recording_id_seq = 0
    /\ user_statistics = <<>>
    /\ temp_files = {}
    /\ response = None

\* audio_file.read() and the test for an empty upload.
ReadAudio ==
    /\ pc = "read"
    /\ IF audio = "unreadable"
       THEN pc' = "done" /\ response' = Reply(400, "Error reading audio file")
       ELSE IF audio = "empty"
       THEN pc' = "done" /\ response' = Reply(400, "Audio file is empty")
       ELSE pc' = "load" /\ UNCHANGED response
    /\ UNCHANGED <<audio, whisper, category, locals_vars, transcription_attempts, compare_calls, storage_vars>>
    /\ UNCHANGED <<text_vars, clip_vars, service_vars, analysis_vars>>

\* The ways the loading of analyze_audio_file can go.  librosa reads the
\* upload directly, or pydub converts it by way of two temporary files;
\* an upload that cannot be loaded fails in AudioSegment.from_file, in
\* audio.export or in the librosa.load of the exported file.
LoadOutcomes(upload) ==
    IF upload = "undecodable"
    THEN {"from_file error", "export error", "load error"}
    ELSE {"direct", "converted"}

\* The temporary files left by the loading: the input file is removed by
\* the finally clause, the output file by the statement after the
\* librosa.load of the exported file.
TempFilesAfterLoad(files, outcome) ==
    IF outcome = "direct"
    THEN files
    ELSE LET with_input == files \cup {"temp_input.webm"}
             after_try ==
                 IF outcome = "from_file error"
                 THEN with_input
                 ELSE IF outcome \in {"export error", "load error"}
                 THEN with_input \cup {"temp_output.wav"}
                 ELSE (with_input \cup {"temp_output.wav"}) \ {"temp_output.wav"}
         IN  after_try \ {"temp_input.webm"}

\* The temporary files left by transcribe_audio: its file is written
\* before the try and removed by the finally clause, whether
\* model.transcribe returns or raises; a service that cannot be loaded
\* never gets to write it.
TempFilesAfterTranscribe(files, outcome) ==
    IF outcome = "load error"
    THEN files
    ELSE (files \cup {"temp_file.wav"}) \ {"temp_file.wav"}

\* analyze_audio_file: loading the audio and the test of its duration; a
\* ValueError leaves through the handler's except ValueError clause.
LoadAudio ==
    /\ pc = "load"
    /\ \E outcome \in LoadOutcomes(audio) :
          temp_files' = TempFilesAfterLoad(temp_files, outcome)
    /\ IF audio = "undecodable"
       THEN pc' = "done" /\ response' = Reply(400, "Error loading audio file")
       ELSE IF TooShort(get_duration(y_len, sr))
       THEN pc' = "done" /\ response' = Reply(400, "Audio too short")
       ELSE pc' = "activity" /\ UNCHANGED response
    /\ UNCHANGED <<audio, whisper, category, locals_vars, transcription_attempts, compare_calls>>
    /\ UNCHANGED <<recordings, recording_id_seq, user_statistics>>
    /\ UNCHANGED <<text_vars, clip_vars, service_vars, analysis_vars>>

\* analyze_audio_file, steps 1 to 5.
DetectSpeechActivity ==
    /\ pc = "activity"
    /\ SpeechActivityStep
    /\ pc' = "speech rate"
    /\ UNCHANGED <<audio, whisper, category, transcription_attempts, compare_calls, storage_vars>>
    /\ UNCHANGED <<locals_vars, response>>

MeasureSpeechRate ==
    /\ pc = "speech rate"
    /\ SpeechRateStep
    /\ pc' = "articulation rate"
    /\ UNCHANGED <<audio, whisper, category, transcription_attempts, compare_calls, storage_vars>>
    /\ UNCHANGED <<locals_vars, response>>

MeasureArticulationRate ==
    /\ pc = "articulation rate"
    /\ ArticulationRateStep
    /\ pc' = "pauses"
    /\ UNCHANGED <<audio, whisper, category, transcription_attempts, compare_calls, storage_vars>>
    /\ UNCHANGED <<locals_vars, response>>

FindPauses ==
    /\ pc = "pauses"
    /\ PausesStep
    /\ pc' = "pacing"
    /\ UNCHANGED <<audio, whisper, category, transcription_attempts, compare_calls, storage_vars>>
    /\ UNCHANGED <<locals_vars, response>>

MeasureLocalPacing ==
    /\ pc = "pacing"
    /\ LocalPacingStep
    /\ pc' = "intelligibility"
    /\ UNCHANGED <<audio, whisper, category, transcription_attempts, compare_calls, storage_vars>>
    /\ UNCHANGED <<locals_vars, response>>

\* analyze_audio_file, step 6.
EstimateIntelligibility ==
    /\ pc = "intelligibility"
    /\ IntelligibilityStep
    /\ pc' = "result"
    /\ UNCHANGED <<audio, whisper, category, transcription_attempts, compare_calls, storage_vars>>
    /\ UNCHANGED <<locals_vars, response>>

\* The dict analyze_audio_file returns for its category.
ReturnAnalysis ==
    /\ pc = "result"
    /\ result' = Some(ResultInCategory(CategoryInfo(category), sr_wpm[1], ar_wpm[1],
                                       get_duration(y_len, sr), speech_analysis[1],
                                       pause_analysis[1], pacing_variations[1],
                                       intelligibility_score[1]))
    /\ pc' = "transcribe"
    /\ UNCHANGED <<audio, whisper, category, transcription_attempts, compare_calls, storage_vars>>
    /\ UNCHANGED <<transcribed_text, advanced_analysis, pronunciation_score, overall_score, response>>
    /\ UNCHANGED <<text_vars, clip_vars, service_vars, analysis_vars>>

\* get_transcription_service() and transcribe_audio(); an exception of
\* either is logged and the handler goes on to the score.
Transcribe ==
    /\ pc = "transcribe"
    /\ transcription_attempts' = transcription_attempts + 1
    /\ IF whisper = "text"
       THEN transcribed_text' = Some(transcribed_raw) /\ pc' = "advanced"
       ELSE UNCHANGED transcribed_text /\ pc' = "score"
    /\ temp_files' = TempFilesAfterTranscribe(temp_files, whisper)
    /\ UNCHANGED <<audio, whisper, category, compare_calls, response>>
    /\ UNCHANGED <<recordings, recording_id_seq, user_statistics>>
    /\ UNCHANGED <<result, advanced_analysis, pronunciation_score, overall_score>>
    /\ UNCHANGED <<text_vars, clip_vars, service_vars, analysis_vars>>

\* analyze_comprehensive and to_dict, in a try of their own: an exception,
\* or a dict with an overall score.
AnalyzeAdvanced ==
    /\ pc = "advanced"
    /\ \E outcome \in {None} \cup {Some([overall_score |-> s]) : s \in {0, 60, 100}} :
          advanced_analysis' = outcome
    /\ pc' = "compare"
    /\ UNCHANGED <<audio, whisper, category, transcription_attempts, compare_calls, storage_vars>>
    /\ UNCHANGED <<result, transcribed_text, pronunciation_score, overall_score, response>>
    /\ UNCHANGED <<text_vars, clip_vars, service_vars, analysis_vars>>

\* compare_texts, if an expected text was provided.
CompareWithExpected ==
    /\ pc = "compare"
    /\ IF IsProvided(expected_text)
       THEN /\ comparison' = Some(compare_texts(expected_text, transcribed_text[1]))
            /\ pronunciation_score' = Some(comparison'[1].pronunciation_score)
            /\ compare_calls' = compare_calls + 1
       ELSE UNCHANGED <<comparison, pronunciation_score, compare_calls>>
    /\ pc' = "score"
    /\ UNCHANGED <<audio, whisper, category, transcription_attempts, storage_vars, response>>
    /\ UNCHANGED <<result, transcribed_text, advanced_analysis, overall_score>>
    /\ UNCHANGED <<expected_text, transcribed_raw, clip_vars, service_vars, analysis_vars>>

ComputeScore ==
    /\ pc = "score"
    /\ overall_score' = Some(OverallScore(result[1], advanced_analysis, pronunciation_score))
    /\ pc' = "volume"
    /\ UNCHANGED <<audio, whisper, category, transcription_attempts, compare_calls, storage_vars>>
    /\ UNCHANGED <<result, transcribed_text, advanced_analysis, pronunciation_score, response>>
    /\ UNCHANGED <<text_vars, clip_vars, service_vars, analysis_vars>>

\* speech_analyzer.calculate_volume_over_time(audio_data, num_points):
\* SpeechAnalyzer has no such method, the call raises AttributeError, and
\* the handler's except Exception clause answers 500.  The statements
\* after the call (recommendations, the row added to recordings, the
\* fields added to result, return result) never run.
CalculateVolume ==
    /\ pc = "volume"
    /\ response' = Reply(500, "Error analyzing audio")
    /\ pc' = "done"
    /\ UNCHANGED <<audio, whisper, category, transcription_attempts, compare_calls, storage_vars>>
    /\ UNCHANGED <<locals_vars>>
    /\ UNCHANGED <<text_vars, clip_vars, service_vars, analysis_vars>>

Next ==
    \/ ReadAudio
    \/ LoadAudio
    \/ DetectSpeechActivity
    \/ MeasureSpeechRate
    \/ MeasureArticulationRate
    \/ FindPauses
    \/ MeasureLocalPacing
    \/ EstimateIntelligibility
    \/ ReturnAnalysis
    \/ Transcribe
    \/ AnalyzeAdvanced
    \/ CompareWithExpected
    \/ ComputeScore
    \/ CalculateVolume

Spec == Init /\ [][Next]_vars

\* ------------------------------------------------------------------------
\* SpecAnalyzer: analyze_audio_file called with every category key
\* ------------------------------------------------------------------------

\* The keys of CATEGORIES and a key it does not have.
CategoryKeys == {"presentation", "pitch", "conversation", "other", "unknown"}

InitAnalyzer ==
    /\ pc = "load"
    /\ audio = "clip"
    /\ category \in CategoryKeys
    /\ sr \in SampleRates
    /\ \E n \in 0 .. MaxClipFrames :
          /\ rms \in [1 .. n -> 0 .. 1]
          /\ y_len \in Lens(n)
          /\ onsets \in {<<>>, FramesOf(0 .. n - 1, n)}
    /\ pacing_onsets = onsets
    /\ whisper = "none"
    /\ NoText
    /\ NoAnalysis
    /\ NoService
    /\ result = None
    /\ transcribed_text = None
    /\ advanced_analysis = None
    /\ pronunciation_score = None
    /\ overall_score = None
    /\ transcription_attempts = 0
    /\ compare_calls = 0
    /\ recordings = <<>>
    /\ recording_id_seq = 0
    /\ user_statistics = <<>>
    /\ temp_files = {}
    /\ response = None

NextAnalyzer ==
    \/ LoadAudio
    \/ DetectSpeechActivity
    \/ MeasureSpeechRate
    \/ MeasureArticulationRate
    \/ FindPauses
    \/ MeasureLocalPacing
    \/ EstimateIntelligibility
    \/ ReturnAnalysis

SpecAnalyzer == InitAnalyzer /\ [][NextAnalyzer]_vars

\* ------------------------------------------------------------------------
\* SpecDb: application startups and recording deletions on the database
\* ------------------------------------------------------------------------

\* The seeds that insert rows in one behaviour.
MaxSeeds == 2

\* mock_recordings, by the overall_score of its entries.
mock_recordings == <<92, 85, 78, 95, 81, 68, 88>>

\* The rows the loop over mock_recordings adds: the ids are drawn from the
\* sequence of the table, which never gives a value twice.
SeededRecordings(last_id) ==
    [i \in 1 .. Len(mock_recordings) |->
        [id |-> last_id + i, overall_score |-> mock_recordings[i]]]

\* user_stats, the row seed_mock_data adds to user_statistics.
SeededStatistics(row_id) ==
    [id |-> row_id, total_recordings |-> Len(mock_recordings), best_score |-> 95]

\* db.query(Recording).filter(Recording.id == recording_id).first()
RecordingWithId(rows, recording_id) ==
    IF \E i \in DOMAIN rows : rows[i].id = recording_id
    THEN Some(rows[CHOOSE i \in DOMAIN rows : rows[i].id = recording_id])
    ELSE None

\* db.delete(recording): the table without the row.
WithoutRecording(rows, recording_id) ==
    SelectSeq(rows, LAMBDA row : row.id # recording_id)

InitDb ==
    /\ NoText
    /\ NoClip
    /\ NoAnalysis
    /\ NoService
    /\ NoRequest

\* startup_event: seed_mock_data returns at once on a database that has
\* recordings, and else adds the mock recordings and one row of statistics.
Startup ==
    /\ Len(user_statistics) < MaxSeeds
    /\ IF Len(recordings) > 0
       THEN UNCHANGED <<recordings, recording_id_seq, user_statistics>>
       ELSE /\ recordings' = recordings \o SeededRecordings(recording_id_seq)
            /\ recording_id_seq' = recording_id_seq + Len(mock_recordings)
            /\ user_statistics' =
                   Append(user_statistics, SeededStatistics(Len(user_statistics) + 1))
    /\ UNCHANGED <<pc, audio, whisper, category, locals_vars, transcription_attempts, compare_calls, temp_files, response>>
    /\ UNCHANGED <<text_vars, clip_vars, analysis_vars, service_vars>>

\* DELETE /recordings/{recording_id}: 404 for an id no row has, and else
\* the row is deleted; user_statistics is not touched.
DeleteRecording ==
    /\ \E recording_id \in 1 .. recording_id_seq + 1 :
          IF RecordingWithId(recordings, recording_id) = None
          THEN /\ response' = Reply(404, "Recording not found")
               /\ UNCHANGED recordings
          ELSE /\ recordings' = WithoutRecording(recordings, recording_id)
               /\ response' = Reply(200, "Recording deleted successfully")
    /\ UNCHANGED <<recording_id_seq, user_statistics, temp_files>>
    /\ UNCHANGED <<pc, audio, whisper, category, locals_vars, transcription_attempts, compare_calls>>
    /\ UNCHANGED <<text_vars, clip_vars, analysis_vars, service_vars>>

NextDb ==
    \/ Startup
    \/ DeleteRecording

SpecDb == InitDb /\ [][NextDb]_vars

\* ------------------------------------------------------------------------
\* Claims about compare_texts (checked under SpecText)
\* ------------------------------------------------------------------------

ExpectedWords == Split(comparison[1].expected_normalized)

TranscribedWords == Split(comparison[1].transcribed_normalized)

\* C5: for all expected and transcribed word sequences the word accuracy is
\* in [0, 1], with len(expected) as its denominator; it is 1.0 when both
\* sequences are empty and 0.0 when only expected is empty.
C5_WordAccuracy ==
    comparison # None =>
        LET c == comparison[1]
        IN  /\ 0 <= c.accuracy[1] /\ c.accuracy[1] <= c.accuracy[2]
            /\ 0 <= c.word_accuracy /\ c.word_accuracy <= 10000
            /\ ExpectedWords # <<>> => c.accuracy[2] = Len(ExpectedWords)
            /\ (ExpectedWords = <<>> /\ TranscribedWords = <<>>)
                    => c.accuracy = <<1, 1>> /\ c.word_accuracy = 10000
            /\ (ExpectedWords = <<>> /\ TranscribedWords # <<>>)
                    => c.accuracy[1] = 0 /\ c.word_accuracy = 0

\* C5's case: a comparison whose expected text has no word while the
\* transcribed text has one.
C5_Witness ==
    /\ comparison # None
    /\ ExpectedWords = <<>>
    /\ TranscribedWords # <<>>
    /\ comparison[1].word_accuracy = 0

\* C6, as claimed: pronunciation_score is round(similarity_ratio * 100) of
\* the similarity_ratio reported in the same result.
C6_ScoreIsRounded ==
    comparison # None =>
        comparison[1].pronunciation_score = PyRound(comparison[1].similarity_ratio, 100)

\* C6, amended: pronunciation_score is 100 times the ratio truncated, never
\* rounded up: score <= 100 * ratio <= score + 1, for the unrounded ratio
\* and for the reported similarity_ratio alike, and 0 <= score <= 100.
C6_ScoreIsTruncated ==
    comparison # None =>
        LET c == comparison[1]
        IN  /\ c.pronunciation_score \in 0 .. 100
            /\ c.pronunciation_score * c.ratio[2] <= 100 * c.ratio[1]
            /\ 100 * c.ratio[1] <= (c.pronunciation_score + 1) * c.ratio[2]
            /\ 100 * c.pronunciation_score <= c.similarity_ratio
            /\ c.similarity_ratio <= 100 * (c.pronunciation_score + 1)

\* C6's case: a comparison whose ratio times 100 has a fractional part of a
\* half or more, where truncating and rounding differ.
C6_Witness ==
    /\ comparison # None
    /\ comparison[1].pronunciation_score
            < PyRound(comparison[1].similarity_ratio, 100)

\* The words an opcode spans, and a fold over the opcodes.
C9_ExpectedChunk(op) == SubSeq(ExpectedWords, op[2] + 1, op[3])

C9_TranscribedChunk(op) == SubSeq(TranscribedWords, op[4] + 1, op[5])

\* Whether some word of the chunk is more than half similar to e, and the
\* first word of the chunk that is the most similar to e.
C9_HasClose(e, chunk) ==
    \E n \in 1 .. Len(chunk) : RatGT(Ratio(e, chunk[n]), <<1, 2>>)

C9_Closest(e, chunk) ==
    chunk[CHOOSE n \in 1 .. Len(chunk) :
            /\ \A m \in 1 .. Len(chunk) : RatLE(Ratio(e, chunk[m]), Ratio(e, chunk[n]))
            /\ \A m \in 1 .. n - 1 : RatGT(Ratio(e, chunk[n]), Ratio(e, chunk[m]))]

\* The classification by opcode: delete -> missing, insert -> extra,
\* replace -> mispronounced with the closest word when its similarity is
\* above 0.5, and missing otherwise.
C9_MissingOf(op) ==
    IF op[1] = "delete" THEN C9_ExpectedChunk(op)
    ELSE IF op[1] = "replace"
    THEN SelectSeq(C9_ExpectedChunk(op),
                   LAMBDA e : ~ C9_HasClose(e, C9_TranscribedChunk(op)))
    ELSE <<>>

C9_ExtraOf(op) == IF op[1] = "insert" THEN C9_TranscribedChunk(op) ELSE <<>>

C9_MispronouncedOf(op) ==
    LET close == SelectSeq(C9_ExpectedChunk(op),
                           LAMBDA e : C9_HasClose(e, C9_TranscribedChunk(op)))
    IN  IF op[1] = "replace"
        THEN [n \in 1 .. Len(close) |->
                LET heard == C9_Closest(close[n], C9_TranscribedChunk(op))
                    r == Ratio(close[n], heard)
                IN  [expected |-> close[n], heard |-> heard,
                     similarity |-> PyRound(100 * r[1], r[2])]]
        ELSE <<>>

RECURSIVE C9_Concat(_, _)
C9_Concat(ops, kind) ==
    IF ops = <<>> THEN <<>>
    ELSE (CASE kind = "missing" -> C9_MissingOf(Head(ops))
            [] kind = "extra" -> C9_ExtraOf(Head(ops))
            [] OTHER -> C9_MispronouncedOf(Head(ops)))
         \o C9_Concat(Tail(ops), kind)

C9_ClassifiedByOpcode ==
    LET c == comparison[1]
        ops == GetOpcodes(ExpectedWords, TranscribedWords)
    IN  /\ c.missing_words = C9_Concat(ops, "missing")
        /\ c.extra_words = C9_Concat(ops, "extra")
        /\ c.mispronounced_words = C9_Concat(ops, "mispronounced")

\* The transcribed words are the expected words with the word at position i
\* altered into a word that is more than half similar to it.
C9_OneWordAltered(i) ==
    /\ Len(ExpectedWords) = Len(TranscribedWords)
    /\ i \in 1 .. Len(ExpectedWords)
    /\ ExpectedWords[i] # TranscribedWords[i]
    /\ \A k \in 1 .. Len(ExpectedWords) : k # i => ExpectedWords[k] = TranscribedWords[k]
    /\ RatGT(Ratio(ExpectedWords[i], TranscribedWords[i]), <<1, 2>>)

C9_OnlyMispronounced(i) ==
    LET c == comparison[1]
    IN  /\ Len(c.mispronounced_words) = 1
        /\ c.mispronounced_words[1].expected = ExpectedWords[i]
        /\ c.mispronounced_words[1].heard = TranscribedWords[i]
        /\ c.missing_words = <<>>
        /\ c.extra_words = <<>>

\* No word occurs twice in the expected text, and the heard word is none of
\* the expected words (as in "roupa" heard as "ropa").
C9_NoRepeatedWord(i) ==
    /\ \A k, l \in 1 .. Len(ExpectedWords) : k # l => ExpectedWords[k] # ExpectedWords[l]
    /\ \A k \in 1 .. Len(ExpectedWords) : ExpectedWords[k] # TranscribedWords[i]

\* C9, as claimed: words are classified by opcode, so that any single
\* altered word with similarity > 0.5 yields one mispronounced entry and
\* empty missing_words and extra_words.
C9_AnyAlteredWordIsMispronounced ==
    comparison # None =>
        /\ C9_ClassifiedByOpcode
        /\ \A i \in 1 .. Len(ExpectedWords) :
                C9_OneWordAltered(i) => C9_OnlyMispronounced(i)

\* C9, amended: words are classified by opcode, and a single altered word
\* with similarity > 0.5 yields one mispronounced entry and empty
\* missing_words and extra_words when no expected word is repeated and the
\* heard word is not itself an expected word.
C9_Differences ==
    comparison # None =>
        /\ C9_ClassifiedByOpcode
        /\ \A i \in 1 .. Len(ExpectedWords) :
                (C9_OneWordAltered(i) /\ C9_NoRepeatedWord(i)) => C9_OnlyMispronounced(i)

\* C9's case: a middle word altered, the words around it unchanged.
C9_Witness ==
    /\ comparison # None
    /\ Len(ExpectedWords) >= 2
    /\ \E i \in 1 .. Len(ExpectedWords) :
            C9_OneWordAltered(i) /\ C9_NoRepeatedWord(i) /\ C9_OnlyMispronounced(i)

\* ------------------------------------------------------------------------
\* Claims about repeated comparisons (checked under SpecRepeat)
\* ------------------------------------------------------------------------

C4_SilenceAccounting ==
    pause_analysis # None =>
        /\ pause_analysis[1].silence_ratio[2] > 0
        /\ RatGE(pause_analysis[1].silence_ratio, <<0, 1>>)
        /\ RatLE(pause_analysis[1].silence_ratio, <<1, 1>>)
        /\ RatAdd(speech_analysis[1].active_speech_duration,
                  RatMul(pause_analysis[1].silence_ratio, get_duration(y_len, sr)))
              = get_duration(y_len, sr)

\* A clip with speech and silence, of a positive duration, has been analysed.
C4_Witness ==
    /\ pause_analysis # None
    /\ y_len > 0
    /\ RatGT(pause_analysis[1].silence_ratio, <<0, 1>>)
    /\ RatLT(pause_analysis[1].silence_ratio, <<1, 1>>)

C8_IsSpeech(f) == speech_analysis[1].speech_frames[f + 1]

\* Frames s .. e - 1 are a maximal run of silence that the speech frame e
\* closes and that lasts more than 100 ms.
C8_IsClosedRun(s, e) ==
    /\ s < e
    /\ e < Len(rms)
    /\ \A f \in s .. e - 1 : ~ C8_IsSpeech(f)
    /\ C8_IsSpeech(e)
    /\ s > 0 => C8_IsSpeech(s - 1)
    /\ (e - s) * hop_length * 10 > sr

C8_SegmentOf(run) ==
    [start |-> frames_to_time(run[1], sr),
     end |-> frames_to_time(run[2], sr),
     duration |-> Rat((run[2] - run[1]) * hop_length, sr)]

\* The runs a pause is reported for; from frame first on.
C8_Runs(first) ==
    {run \in (first .. Len(rms)) \X (0 .. Len(rms)) : C8_IsClosedRun(run[1], run[2])}

\* The reported pauses are the segments of the runs, each once, in the
\* order of time and without overlap.
C8_ReportsExactly(runs, segments) ==
    /\ {segments[k] : k \in DOMAIN segments} = {C8_SegmentOf(run) : run \in runs}
    /\ Len(segments) = Cardinality(runs)
    /\ \A k \in DOMAIN segments : RatGT(segments[k].duration, <<1, 10>>)
    /\ \A k \in 1 .. Len(segments) - 1 : RatLE(segments[k].end, segments[k + 1].start)

\* C8 as stated: the pause segments are exactly the maximal runs of silence
\* longer than 100 ms that have speech before and after, in order and
\* without overlap.
C8_PausesBetweenSpeech ==
    pause_analysis # None => C8_ReportsExactly(C8_Runs(1), pause_analysis[1].pause_segments)

\* C8, amended: the pause segments are exactly the maximal runs of silence
\* longer than 100 ms that a speech frame closes, the run of the first
\* frames included; silence up to the end of the clip is no pause; the
\* segments are in order and do not overlap.
C8_PausesClosedBySpeech ==
    pause_analysis # None => C8_ReportsExactly(C8_Runs(0), pause_analysis[1].pause_segments)

\* A clip that opens with a reported pause, has a reported pause between
\* speech, and ends in silence.
C8_Witness ==
    /\ pause_analysis # None
    /\ \E k \in DOMAIN pause_analysis[1].pause_segments :
          pause_analysis[1].pause_segments[k].start = <<0, 1>>
    /\ \E k \in DOMAIN pause_analysis[1].pause_segments :
          RatGT(pause_analysis[1].pause_segments[k].start, <<0, 1>>)
    /\ ~ C8_IsSpeech(Len(rms) - 1)

\* C11: when every frame of a clip carries speech energy (no frame at the
\* zero level), the silence ratio found by the pause analyzer is below
\* 0.10 and the intelligibility estimator applies the factor 0.85.
C11_ContinuousSpeechHasLowSilence ==
    (/\ pause_analysis # None
     /\ Len(rms) > 0
     /\ \A f \in DOMAIN rms : rms[f] > 0)
        => /\ RatLT(pause_analysis[1].silence_ratio, <<1, 10>>)
           /\ SilenceFactor(pause_analysis[1].silence_ratio) = <<17, 20>>

\* ------------------------------------------------------------------------
\* Claims about the rates (checked under SpecRate)
\* ------------------------------------------------------------------------

\* C7 as stated: with no onset the Speech Rate and the Articulation Rate
\* are 0.
C7_NoOnsetRatesAreZero ==
    onsets = <<>> =>
        /\ sr_wpm # None => sr_wpm[1] = <<0, 1>>
        /\ ar_wpm # None => ar_wpm[1] = <<0, 1>>

\* C7, amended: with no onset no division fails; the Speech Rate returned
\* is 80, the floor of the correction of a raw rate of 0, and the
\* Articulation Rate returned is 0 when the active speech is shorter than
\* 0.5 s and 80 otherwise.
C7_NoOnsetRates ==
    onsets = <<>> =>
        /\ sr_wpm # None => sr_wpm[1] = <<80, 1>>
        /\ ar_wpm # None =>
              ar_wpm[1] = IF RatLT(speech_analysis[1].active_speech_duration, <<1, 2>>)
                          THEN <<0, 1>>
                          ELSE <<80, 1>>

\* Both rates of a clip with no onset and half a second of speech or more.
C7_Witness ==
    /\ onsets = <<>>
    /\ sr_wpm = Some(<<80, 1>>)
    /\ ar_wpm = Some(<<80, 1>>)
    /\ RatGE(speech_analysis[1].active_speech_duration, <<1, 2>>)

\* The raw Speech Rate of a list of onsets, before the sanity check.
C13_RawSr(onset_frames) ==
    PerMinute(NumWords(Len(onset_frames), <<27, 10>>), Minutes(get_duration(y_len, sr)))

C13_Syllables(onset_frames) ==
    NumSyllables(Len(ActiveOnsets(onset_frames, speech_analysis[1].speech_frames)),
                 Len(onset_frames), speech_analysis[1].speech_ratio,
                 RetentionRate(Len(ActiveOnsets(onset_frames, speech_analysis[1].speech_frames)),
                               Len(onset_frames)))

\* The raw Articulation Rate of a list of onsets, before the correction;
\* the estimator stops at 0 when the active duration is below half a second.
C13_RawAr(onset_frames) ==
    IF RatLT(speech_analysis[1].active_speech_duration, <<1, 2>>) THEN <<0, 1>>
    ELSE PerMinute(NumWords(C13_Syllables(onset_frames),
                            SyllablesPerWord(RatDiv(<<C13_Syllables(onset_frames), 1>>,
                                                    speech_analysis[1].active_speech_duration))),
                   Minutes(speech_analysis[1].active_speech_duration))

\* The onsets of the clip and one more, detected in frame f.
C13_OneMore(f) == FramesOf({onsets[k] : k \in DOMAIN onsets} \cup {f}, Len(rms))

\* C13: on the same clip (the same total and active duration), one more
\* detected onset never lowers the raw Speech Rate nor the raw
\* Articulation Rate.
C13_MoreOnsetsNeverLowerRawRates ==
    speech_analysis # None =>
        \A f \in 0 .. Len(rms) - 1 :
            /\ RatGE(C13_RawSr(C13_OneMore(f)), C13_RawSr(onsets))
            /\ RatGE(C13_RawAr(C13_OneMore(f)), C13_RawAr(onsets))

\* ------------------------------------------------------------------------
\* Claims about the local pacing (checked under SpecPacing)
\* ------------------------------------------------------------------------

\* The windows of 15 onsets, 7 onsets apart, that span a positive time.
C10_Windows ==
    {i \in 0 .. Len(pacing_onsets) - window_size - 1 :
        /\ i % 7 = 0
        /\ pacing_onsets[i + window_size] > pacing_onsets[i + 1]}

\* score is max(0, 100 - 3 * vc) rounded down, for vc = 100 * sqrt(q).
C10_IsScoreOf(score, q) ==
    IF CmpFrac(10000, 90000, q[1], q[2]) < 0 THEN score = 0
    ELSE /\ CmpFrac((100 - score) * (100 - score), 90000, q[1], q[2]) >= 0
         /\ score < 100 => CmpFrac((99 - score) * (99 - score), 90000, q[1], q[2]) < 0

\* C10: with fewer than 20 onsets the consistency is 100, no significant
\* variation is reported and no window is evaluated; otherwise the windows
\* of 15 onsets are evaluated, the consistency is max(0, 100 - 3 * vc) and
\* lies in [0, 100], and a significant variation is reported exactly when
\* vc > 20.
C10_LocalPacing ==
    pacing_variations # None =>
        IF Len(pacing_onsets) < 20
        THEN /\ pacing_variations[1].consistency_score = 100
             /\ ~ pacing_variations[1].has_significant_variation
             /\ pacing_variations[1].local_rates = <<>>
        ELSE /\ Len(pacing_variations[1].local_rates) = Cardinality(C10_Windows)
             /\ pacing_variations[1].consistency_score \in 0 .. 100
             /\ C10_IsScoreOf(pacing_variations[1].consistency_score,
                              pacing_variations[1].relative_variance)
             /\ pacing_variations[1].has_significant_variation
                   <=> RatGT(pacing_variations[1].relative_variance, <<1, 25>>)

\* Three windows whose pace varies so much that the consistency is 0.
C10_Witness ==
    /\ pacing_variations # None
    /\ Len(pacing_variations[1].local_rates) = 3
    /\ pacing_variations[1].has_significant_variation
    /\ pacing_variations[1].consistency_score = 0
    /\ CmpFrac(10000, 90000, pacing_variations[1].relative_variance[1],
               pacing_variations[1].relative_variance[2]) < 0

\* ------------------------------------------------------------------------
\* Claims about the intelligibility estimate (checked under
\* SpecIntelligibility)
\* ------------------------------------------------------------------------

\* The one factor each band of the articulation rate stands for.
C12_ArFactor(ar) ==
    CASE RatGT(ar, <<400, 1>>) -> <<3, 10>>
      [] RatGT(ar, <<250, 1>>) /\ RatLE(ar, <<400, 1>>) -> <<3, 5>>
      [] RatGT(ar, <<200, 1>>) /\ RatLE(ar, <<250, 1>>) -> <<17, 20>>
      [] RatLT(ar, <<80, 1>>) -> <<9, 10>>
      [] RatGE(ar, <<80, 1>>) /\ RatLE(ar, <<200, 1>>) -> <<1, 1>>

C12_SilenceFactor(silence_ratio) ==
    CASE RatLT(silence_ratio, <<1, 10>>) -> <<17, 20>>
      [] RatGT(silence_ratio, <<2, 5>>) -> <<9, 10>>
      [] RatGE(silence_ratio, <<1, 10>>) /\ RatLE(silence_ratio, <<2, 5>>) -> <<1, 1>>

\* C12: the intelligibility score is 100 times one factor for the band of
\* the articulation rate (above 400: 0.3, above 250: 0.6, above 200: 0.85,
\* below 80: 0.9, else 1), times 1 - 0.3 (100 - consistency_score) / 100,
\* times one factor for the silence ratio (below 0.10: 0.85, above 0.40:
\* 0.90, else 1); it depends on nothing else and lies between 0 and 100.
C12_IntelligibilityIsProductOfFactors ==
    intelligibility_score # None =>
        /\ intelligibility_score[1]
              = RatMul(RatMul(RatMul(<<100, 1>>, C12_ArFactor(ar_wpm[1])),
                              RatSub(<<1, 1>>,
                                     RatMul(<<3, 10>>,
                                            Rat(100 - pacing_variations[1].consistency_score,
                                                100)))),
                       C12_SilenceFactor(pause_analysis[1].silence_ratio))
        /\ RatGE(intelligibility_score[1], <<0, 1>>)
        /\ RatLE(intelligibility_score[1], <<100, 1>>)

\* A rate above 400, a consistency score of 40 and a silence ratio of 0.09
\* gave 100 * 0.3 * 0.82 * 0.85 = 20.91.
C12_Witness ==
    /\ intelligibility_score = Some(<<2091, 100>>)
    /\ ar_wpm = Some(<<401, 1>>)
    /\ pacing_variations[1].consistency_score = 40
    /\ pause_analysis[1].silence_ratio = <<9, 100>>

\* ------------------------------------------------------------------------
\* Claims about the pauses between segments (checked under SpecPauses)
\* ------------------------------------------------------------------------

C15_Gap(i) == RatSub(transcript_segments[i].start, transcript_segments[i - 1].end)

\* The gap counts as a pause: when it exceeds the floor (strict), or when
\* it is at least the floor.
C15_Counts(gap, strict) ==
    IF strict THEN RatGT(gap, <<1, 4>>) ELSE RatGE(gap, <<1, 4>>)

\* The gaps before the segments from the i-th on that count, summed.
RECURSIVE C15_SumOfGaps(_, _)
C15_SumOfGaps(i, strict) ==
    IF i > Len(transcript_segments) THEN <<0, 1>>
    ELSE RatAdd(IF C15_Counts(C15_Gap(i), strict) THEN C15_Gap(i) ELSE <<0, 1>>,
                C15_SumOfGaps(i + 1, strict))

\* C15 as stated: the total pause duration is the sum of the gaps between
\* consecutive segments that exceed 0.25 s; a gap at or below the floor
\* contributes nothing.
C15_PausesExceedFloor ==
    pause_metrics # None =>
        pause_metrics[1].total_pause_duration = Round2(C15_SumOfGaps(2, TRUE))

\* C15, amended: the total pause duration is the sum of the gaps between
\* consecutive segments that are at least 0.25 s, and the number of pauses
\* is the number of those gaps; a gap below the floor contributes nothing,
\* and fewer than two segments give no pause.
C15_PausesReachFloor ==
    pause_metrics # None =>
        /\ pause_metrics[1].total_pause_duration = Round2(C15_SumOfGaps(2, FALSE))
        /\ pause_metrics[1].total_pauses
              = Cardinality({i \in 2 .. Len(transcript_segments) :
                               C15_Counts(C15_Gap(i), FALSE)})
        /\ Len(transcript_segments) < 2 =>
              /\ pause_metrics[1].total_pauses = 0
              /\ pause_metrics[1].total_pause_duration = <<0, 1>>

\* Three segments with a gap of exactly 0.25 s and a gap of none: one pause
\* of 0.25 s.
C15_Witness ==
    /\ pause_metrics # None
    /\ Len(transcript_segments) = 3
    /\ C15_Gap(2) = <<1, 4>>
    /\ C15_Gap(3) = <<0, 1>>
    /\ pause_metrics[1].total_pauses = 1
    /\ pause_metrics[1].total_pause_duration = <<1, 4>>

\* ------------------------------------------------------------------------
\* Claims about the comprehensive analysis (checked under SpecService)
\* ------------------------------------------------------------------------

\* The hesitation rate: the gaps of at least 2.0 s per minute of the total
\* duration, 0 when the duration is not positive.
C16_HesitationRate ==
    IF transcript_duration[1] > 0
    THEN RatDiv(<<60 * Cardinality({i \in 2 .. Len(transcript_segments) :
                                       RatGE(RatSub(transcript_segments[i].start,
                                                    transcript_segments[i - 1].end),
                                             <<2, 1>>)}), 1>>,
                transcript_duration)
    ELSE <<0, 1>>

\* count / words * weight, taken as 0 for a transcript without words
C16_Share(count, weight) ==
    IF Len(extract_words(transcribed_raw)) = 0 THEN <<0, 1>>
    ELSE Rat(count * weight, Len(extract_words(transcribed_raw)))

\* repetitions / words * 20 + self_corrections / words * 15
\* + hesitation_rate * 5 + incomplete_sentences * 3
C16_Penalty ==
    RatAdd(RatAdd(C16_Share(comprehensive[1].fluency.repetition_count, 20),
                  C16_Share(comprehensive[1].fluency.self_corrections_count, 15)),
           RatAdd(RatMul(C16_HesitationRate, <<5, 1>>),
                  <<3 * comprehensive[1].fluency.incomplete_sentences, 1>>))

\* 100 - penalty clamped to [0, 100], to one decimal
C16_ScoreOf(penalty) ==
    Round1(RatMax(<<0, 1>>, RatMin(<<100, 1>>, RatSub(<<100, 1>>, penalty))))

\* The fragments between full stops that have one or two tokens.
C16_IncompleteFragments ==
    {k \in DOMAIN SentencesFrom(transcribed_raw, <<>>) :
        Len(Split(SentencesFrom(transcribed_raw, <<>>)[k])) \in {1, 2}}

\* C16 as stated: for every transcript, duration and segment list the
\* fluency score is 100 minus the weighted penalty, clamped to [0, 100]
\* (read up to the rounding to one decimal, and with the two ratios taken
\* as 0 when there is no word to divide by).
C16_FluencyScoreAsStated ==
    comprehensive # None =>
        comprehensive[1].fluency.fluency_score = C16_ScoreOf(C16_Penalty)

\* C16, amended: when the transcript has at least one word the fluency
\* score is 100 minus the weighted penalty, clamped to [0, 100] and rounded
\* to one decimal; when it has none the score is 100, whatever the
\* hesitations and the incomplete sentences.  The hesitation rate counts
\* the gaps of at least 2.0 s per minute and is returned to two decimals; a
\* fragment of one or two tokens counts as incomplete.
C16_FluencyScore ==
    comprehensive # None =>
        /\ comprehensive[1].fluency.fluency_score
              = IF Len(extract_words(transcribed_raw)) > 0 THEN C16_ScoreOf(C16_Penalty)
                ELSE <<100, 1>>
        /\ comprehensive[1].fluency.hesitation_rate = Round2(C16_HesitationRate)
        /\ comprehensive[1].fluency.incomplete_sentences = Cardinality(C16_IncompleteFragments)

\* A transcript of one number, with a hesitation, scored 100.
C16_Witness ==
    /\ comprehensive # None
    /\ transcribed_raw = <<"1">>
    /\ RatGT(C16_HesitationRate, <<0, 1>>)
    /\ comprehensive[1].fluency.incomplete_sentences = 1
    /\ comprehensive[1].fluency.fluency_score = <<100, 1>>

\* A transcript with words lost points for a self-correction, a hesitation
\* and an incomplete sentence.
C16_WitnessWithWords ==
    /\ comprehensive # None
    /\ comprehensive[1].fluency.self_corrections_count > 0
    /\ RatGT(C16_HesitationRate, <<0, 1>>)
    /\ comprehensive[1].fluency.incomplete_sentences > 0
    /\ RatGT(comprehensive[1].fluency.fluency_score, <<0, 1>>)
    /\ RatLT(comprehensive[1].fluency.fluency_score, <<100, 1>>)

\* A score between 0 and 100.
C17_IsScore(score) == RatGE(score, <<0, 1>>) /\ RatLE(score, <<100, 1>>)

\* C17: the overall score is 0.25 times the speech rate score plus 0.15
\* times the pause score plus 0.25 times the vocabulary score plus 0.35
\* times the fluency score (returned to one decimal); each of the four lies
\* in [0, 100], and so does the overall score.
C17_OverallScoreIsWeightedMean ==
    comprehensive # None =>
        /\ C17_IsScore(score_speech_rate(comprehensive[1].speech_rate))
        /\ C17_IsScore(score_pauses(comprehensive[1].pauses))
        /\ C17_IsScore(score_vocabulary(comprehensive[1].vocabulary))
        /\ C17_IsScore(comprehensive[1].fluency.fluency_score)
        /\ C17_IsScore(comprehensive[1].overall_score)
        /\ comprehensive[1].overall_score
              = Round1(RatAdd(RatAdd(RatMul(<<25, 100>>,
                                            score_speech_rate(comprehensive[1].speech_rate)),
                                     RatMul(<<15, 100>>,
                                            score_pauses(comprehensive[1].pauses))),
                              RatAdd(RatMul(<<25, 100>>,
                                            score_vocabulary(comprehensive[1].vocabulary)),
                                     RatMul(<<35, 100>>,
                                            comprehensive[1].fluency.fluency_score))))

\* The pause ratio was above 1 and the longest pause above 3 s: the pause
\* score was held at 0, and the overall score lay strictly between 0 and
\* 100.
C17_Witness ==
    /\ comprehensive # None
    /\ RatGT(comprehensive[1].pauses.pause_ratio, <<1, 1>>)
    /\ RatGT(comprehensive[1].pauses.longest_pause, <<3, 1>>)
    /\ score_pauses(comprehensive[1].pauses) = <<0, 1>>
    /\ RatGT(comprehensive[1].overall_score, <<0, 1>>)
    /\ RatLT(comprehensive[1].overall_score, <<100, 1>>)

\* The four ratios of the vocabulary metrics.
C18_Ratios ==
    {comprehensive[1].vocabulary.vocabulary_richness,
     comprehensive[1].vocabulary.complex_words_ratio,
     comprehensive[1].vocabulary.filler_words_ratio,
     comprehensive[1].vocabulary.lexical_density}

\* C18: for a transcript without words every ratio of the vocabulary
\* metrics is 0, the value of the guard and not the outcome of a division
\* by zero; for every transcript each ratio is a number between 0 and 1.
C18_VocabularyRatios ==
    comprehensive # None =>
        /\ Len(extract_words(transcribed_raw)) = 0 =>
              /\ comprehensive[1].vocabulary.total_words = 0
              /\ C18_Ratios = {<<0, 1>>}
        /\ \A ratio \in C18_Ratios :
              /\ ratio # ZeroDivisionError
              /\ RatGE(ratio, <<0, 1>>)
              /\ RatLE(ratio, <<1, 1>>)

\* A transcript that is not empty and has no word was analysed.
C18_Witness ==
    /\ comprehensive # None
    /\ transcribed_raw # <<>>
    /\ extract_words(transcribed_raw) = <<>>
    /\ comprehensive[1].vocabulary.total_words = 0

\* A transcript of three different words, one a filler and one complex,
\* was analysed.
C18_WitnessWithWords ==
    /\ comprehensive # None
    /\ comprehensive[1].vocabulary.total_words = 3
    /\ comprehensive[1].vocabulary.unique_words = 3
    /\ comprehensive[1].vocabulary.filler_words_count = 1
    /\ comprehensive[1].vocabulary.complex_words_count = 1

\* ------------------------------------------------------------------------
\* Claims about the category profiles (checked under SpecAnalyzer)
\* ------------------------------------------------------------------------

\* The key of the profile a category key stands for.
C20_ProfileKey(key) ==
    IF key \in {"presentation", "pitch", "conversation", "other"} THEN key ELSE "other"

\* C20: for every category key, known or not, the profile used (the one
\* of "other" for an unknown key) has 0 < min_ppm < max_ppm < 300, the
\* presentation profile is 140 to 160, and the result's is_within_range is
\* true exactly when the articulation rate lies between min_ppm and max_ppm
\* of that profile, both included.
C20_CategoryProfiles ==
    /\ \A key \in CategoryKeys :
          /\ CategoryInfo(key) = CATEGORIES[C20_ProfileKey(key)]
          /\ 0 < CategoryInfo(key).min_ppm
          /\ CategoryInfo(key).min_ppm < CategoryInfo(key).max_ppm
          /\ CategoryInfo(key).max_ppm < 300
    /\ CategoryInfo("presentation").min_ppm = 140
    /\ CategoryInfo("presentation").max_ppm = 160
    /\ result # None =>
          /\ result[1].ideal_min_ppm = CATEGORIES[C20_ProfileKey(category)].min_ppm
          /\ result[1].ideal_max_ppm = CATEGORIES[C20_ProfileKey(category)].max_ppm
          /\ result[1].category = CATEGORIES[C20_ProfileKey(category)].name
          /\ result[1].is_within_range
                <=> /\ RatGE(ar_wpm[1], <<result[1].ideal_min_ppm, 1>>)
                    /\ RatLE(ar_wpm[1], <<result[1].ideal_max_ppm, 1>>)

\* A clip analysed under an unknown key: its articulation rate of 148.1
\* is within the range of presentation and above the 110 to 140 of
\* "other", the profile of the result.
C20_Witness ==
    /\ result # None
    /\ category = "unknown"
    /\ ar_wpm[1] = <<4000, 27>>
    /\ result[1].ideal_max_ppm = 140
    /\ ~ result[1].is_within_range

\* The same rate is within the 120 to 150 of pitch.
C20_WitnessWithinRange ==
    /\ result # None
    /\ category = "pitch"
    /\ ar_wpm[1] = <<4000, 27>>
    /\ result[1].is_within_range

\* ------------------------------------------------------------------------
\* Claims about the /analyze request, checked under Spec
\* ------------------------------------------------------------------------

\* The request was accepted by the acoustic analysis and has been answered.
C1_AnsweredAfterAnalysis == pc = "done" /\ result # None

\* C1: if obtaining the transcription service or transcribe_audio fails
\* after the acoustic analysis has succeeded, the request still ends with a
\* successful result whose transcript-derived fields are all null; the
\* failure never becomes an error response.  The code does not do this:
\* the call of calculate_volume_over_time that follows the score raises
\* AttributeError and the request is answered 500.
C1_TranscriptionFailureIsNoError ==
    (C1_AnsweredAfterAnalysis /\ whisper # "text") =>
        /\ response[1].status = 200
        /\ transcribed_text = None
        /\ pronunciation_score = None
        /\ comparison = None
        /\ advanced_analysis = None

\* C2: when expected_text is absent, empty or only whitespace,
\* compare_texts is never invoked, and the request ends with a result whose
\* comparison fields are null and whose acoustic fields are populated.
\* The comparison is skipped, but no result is returned: the request is
\* answered 500 for the reason given at C1.
C2_BlankExpectedTextGivesAcousticResult ==
    (pc = "done" /\ result # None /\ ~ IsProvided(expected_text)) =>
        /\ compare_calls = 0
        /\ comparison = None
        /\ pronunciation_score = None
        /\ response[1].status = 200

\* The clip was decoded and lasts less than one second.
C3_IsShortClip == audio = "clip" /\ RatLT(get_duration(y_len, sr), <<1, 1>>)

\* C3: when the decoded audio is shorter than 1.0 second the request never
\* gets past analyze_audio_file: no step of the acoustic analysis runs, no
\* transcription call is attempted, no row is written to recordings, and
\* the answer, once given, is 400 with the too-short message.
C3_ShortClipIsRejectedFirst ==
    C3_IsShortClip =>
        /\ pc \in {"read", "load", "done"}
        /\ NoAnalysis
        /\ result = None
        /\ transcription_attempts = 0
        /\ compare_calls = 0
        /\ recordings = <<>>
        /\ pc = "done" => response = Reply(400, "Audio too short")

\* A clip of three frames that lasts half a second or more has been rejected.
C3_Witness ==
    /\ C3_IsShortClip
    /\ Len(rms) = 3
    /\ RatGE(get_duration(y_len, sr), <<1, 2>>)
    /\ pc = "done"
    /\ response = Reply(400, "Audio too short")
    /\ transcription_attempts = 0

\* ------------------------------------------------------------------------
\* Claims about the feedback of the analyzer (checked under SpecAnalyzer)
\* ------------------------------------------------------------------------

\* The message the band of the category asks for at a rate.
C21_MessageOf(rate, info) ==
    IF RatLT(rate, <<info.min_ppm, 1>>) THEN "slow"
    ELSE IF RatGT(rate, <<info.max_ppm, 1>>) THEN "fast"
    ELSE "ideal"

C21_WitnessSlow ==
    /\ result # None
    /\ RatGT(ar_wpm[1], <<0, 1>>)
    /\ result[1].feedback[1] = "slow"

\* A clip spoken within the band.
C21_WitnessIdeal ==
    /\ result # None
    /\ result[1].feedback[1] = "ideal"

\* ------------------------------------------------------------------------
\* Claims about the two rates (checked under SpecRate and SpecOnsets)
\* ------------------------------------------------------------------------

\* The onsets per second of a clip, 0 for a clip without duration.
C22_Density(count, duration) ==
    IF duration[1] > 0 THEN RatDiv(<<count, 1>>, duration) ELSE <<0, 1>>

\* The Speech Rate of a clip whose word count is its onset count divided by
\* the value selected from its onset density.
C22_SpeechRateByDensity ==
    CorrectWpm(PerMinute(NumWords(Len(onsets),
                                  SyllablesPerWord(C22_Density(Len(onsets), get_duration(y_len, sr)))),
                         Minutes(get_duration(y_len, sr))))

\* C22: the Speech Rate of a clip is the rate of a word count that is the
\* onset count divided by the syllables-per-word value of the clip's onset
\* density: 1.8 above 4 onsets per second, 2.2 above 3, 3.0 below 1.5 and
\* 2.7 otherwise.
C22_SpeechRateUsesDensitySelectedValue ==
    sr_wpm # None => sr_wpm[1] = C22_SpeechRateByDensity

\* The same for the Articulation Rate, on the syllables counted and the
\* active duration: this part is what the code does.
C22_ArticulationRateUsesDensitySelectedValue ==
    (ar_wpm # None /\ RatGE(speech_analysis[1].active_speech_duration, <<1, 2>>)) =>
        LET analysis == speech_analysis[1]
            active == Len(ActiveOnsets(onsets, analysis.speech_frames))
            syllables == NumSyllables(active, Len(onsets), analysis.speech_ratio,
                                      RetentionRate(active, Len(onsets)))
            density == RatDiv(<<syllables, 1>>, analysis.active_speech_duration)
            per_word == IF RatGT(density, <<4, 1>>) THEN <<18, 10>>
                        ELSE IF RatGT(density, <<3, 1>>) THEN <<22, 10>>
                        ELSE IF RatLT(density, <<3, 2>>) THEN <<30, 10>>
                        ELSE <<27, 10>>
        IN  ar_wpm[1] = CorrectAr(RatDiv(RatDiv(<<syllables, 1>>, per_word),
                                         RatDiv(analysis.active_speech_duration, <<60, 1>>)),
                                  RatDiv(<<Len(onsets), 1>>, get_duration(y_len, sr)))

\* The raw Speech Rate of the clip: onsets / 2.7 per minute of its duration.
C23_RawSr ==
    IF get_duration(y_len, sr)[1] > 0
    THEN RatDiv(RatDiv(<<Len(onsets), 1>>, <<27, 10>>), RatDiv(get_duration(y_len, sr), <<60, 1>>))
    ELSE <<0, 1>>

\* The syllables counted for the Articulation Rate.
C23_Syllables ==
    LET active == Len(SelectSeq(onsets, LAMBDA f : speech_analysis[1].speech_frames[f + 1]))
    IN  IF /\ RatLT(speech_analysis[1].speech_ratio, <<2, 5>>)
           /\ Len(onsets) > 0
           /\ 2 * active < Len(onsets)
        THEN Len(onsets)
        ELSE active

\* The raw Articulation Rate of a clip with at least 0.5 s of speech.
C23_RawAr ==
    LET active_duration == speech_analysis[1].active_speech_duration
        density == RatDiv(<<C23_Syllables, 1>>, active_duration)
        per_word == IF RatGT(density, <<4, 1>>) THEN <<9, 5>>
                    ELSE IF RatGT(density, <<3, 1>>) THEN <<11, 5>>
                    ELSE IF RatLT(density, <<3, 2>>) THEN <<3, 1>>
                    ELSE <<27, 10>>
    IN  RatDiv(RatDiv(<<C23_Syllables, 1>>, per_word), RatDiv(active_duration, <<60, 1>>))

C23_InBand(rate) == RatGE(rate, <<50, 1>>) /\ RatLE(rate, <<250, 1>>)

\* C23: the Speech Rate returned is max(80, 2.0 * raw) for a raw rate below
\* 50, min(200, 0.8 * raw) for a raw rate above 250 and the raw rate
\* otherwise; the Articulation Rate returned is 0 when the active speech is
\* shorter than 0.5 s and otherwise max(80, 2.5 * raw) for a raw rate below
\* 50 at fewer than 2 onsets per second of the clip, max(80, 1.8 * raw) for
\* a raw rate below 50 at 2 or more, min(220, 0.85 * raw) for a raw rate
\* above 250 and the raw rate otherwise; so every Speech Rate lies in
\* [50, 250] and every Articulation Rate is 0 or lies in [50, 250].
C23_CorrectedRates ==
    /\ sr_wpm # None =>
          /\ sr_wpm[1] = IF RatLT(C23_RawSr, <<50, 1>>)
                         THEN RatMax(<<80, 1>>, RatMul(<<2, 1>>, C23_RawSr))
                         ELSE IF RatGT(C23_RawSr, <<250, 1>>)
                         THEN RatMin(<<200, 1>>, RatMul(<<4, 5>>, C23_RawSr))
                         ELSE C23_RawSr
          /\ C23_InBand(sr_wpm[1])
    /\ ar_wpm # None =>
          IF RatLT(speech_analysis[1].active_speech_duration, <<1, 2>>)
          THEN ar_wpm[1] = <<0, 1>>
          ELSE /\ ar_wpm[1] =
                    IF RatLT(C23_RawAr, <<50, 1>>)
                    THEN IF RatLT(RatDiv(<<Len(onsets), 1>>, get_duration(y_len, sr)), <<2, 1>>)
                         THEN RatMax(<<80, 1>>, RatMul(<<5, 2>>, C23_RawAr))
                         ELSE RatMax(<<80, 1>>, RatMul(<<9, 5>>, C23_RawAr))
                    ELSE IF RatGT(C23_RawAr, <<250, 1>>)
                    THEN RatMin(<<220, 1>>, RatMul(<<17, 20>>, C23_RawAr))
                    ELSE C23_RawAr
               /\ C23_InBand(ar_wpm[1])

\* A clip whose raw Articulation Rate is above 250 / 0.85, so that the
\* ceiling of 220 is what is returned, and whose Speech Rate is unchanged.
C23_Witness ==
    /\ ar_wpm # None
    /\ RatGE(speech_analysis[1].active_speech_duration, <<1, 2>>)
    /\ RatGT(RatMul(<<17, 20>>, C23_RawAr), <<220, 1>>)
    /\ ar_wpm[1] = <<220, 1>>
    /\ sr_wpm[1] = C23_RawSr

\* A clip whose raw Speech Rate is above 250.
C23_WitnessFastSr ==
    /\ sr_wpm # None
    /\ RatGT(C23_RawSr, <<250, 1>>)
    /\ sr_wpm[1] = <<200, 1>>

\* A clip whose raw rates are both below 50 and boosted beyond the floor of
\* 80, the Articulation Rate at fewer than 2 onsets per second.
C23_WitnessSlow ==
    /\ ar_wpm # None
    /\ RatGE(speech_analysis[1].active_speech_duration, <<1, 2>>)
    /\ RatLT(C23_RawSr, <<50, 1>>)
    /\ RatLT(C23_RawAr, <<50, 1>>)
    /\ RatGT(sr_wpm[1], <<80, 1>>)
    /\ RatGT(ar_wpm[1], <<80, 1>>)

\* A clip whose raw Articulation Rate is below 50 at 2 or more onsets per
\* second of the clip.
C23_WitnessSlowDense ==
    /\ ar_wpm # None
    /\ RatGE(speech_analysis[1].active_speech_duration, <<1, 2>>)
    /\ RatLT(C23_RawAr, <<50, 1>>)
    /\ RatGE(RatDiv(<<Len(onsets), 1>>, get_duration(y_len, sr)), <<2, 1>>)

\* The onsets detected in frames marked as speech.
C24_Retained ==
    Len(SelectSeq(onsets, LAMBDA f : speech_analysis[1].speech_frames[f + 1]))

\* The VAD is taken as too aggressive: less than 40% of the frames are
\* speech and less than 50% of the onsets detected are retained.
C24_VadTooAggressive ==
    /\ RatLT(speech_analysis[1].speech_ratio, <<2, 5>>)
    /\ Len(onsets) > 0
    /\ RatLT(Rat(C24_Retained, Len(onsets)), <<1, 2>>)

\* C24: the Articulation Rate of a clip with 0.5 s of speech or more is the
\* rate of all the onsets detected, over the active-speech duration, exactly
\* when the active-speech ratio is below 0.40 and the share of the onsets
\* retained by the mask is below 0.50; otherwise, and when no onset was
\* detected, it is the rate of the retained onsets over the same duration.
C24_HybridOnsetCount ==
    (ar_wpm # None /\ RatGE(speech_analysis[1].active_speech_duration, <<1, 2>>)) =>
        ar_wpm[1] = ArOfSyllables(IF C24_VadTooAggressive THEN Len(onsets) ELSE C24_Retained,
                                  speech_analysis[1].active_speech_duration,
                                  Len(onsets), get_duration(y_len, sr))

\* A clip with less than 40% of speech whose mask retains one onset of
\* three: all three are counted, and the rate differs from the one of the
\* retained onset.
C24_Witness ==
    /\ ar_wpm # None
    /\ RatGE(speech_analysis[1].active_speech_duration, <<1, 2>>)
    /\ C24_VadTooAggressive
    /\ C24_Retained = 1
    /\ Len(onsets) = 3
    /\ ar_wpm[1] # ArOfSyllables(C24_Retained, speech_analysis[1].active_speech_duration,
                                 Len(onsets), get_duration(y_len, sr))

\* A clip with less than 40% of speech whose mask retains exactly half of
\* the onsets: only the retained ones are counted.
C24_WitnessHalfRetained ==
    /\ ar_wpm # None
    /\ RatGE(speech_analysis[1].active_speech_duration, <<1, 2>>)
    /\ RatLT(speech_analysis[1].speech_ratio, <<2, 5>>)
    /\ Len(onsets) = 4
    /\ C24_Retained = 2
    /\ ar_wpm[1] # ArOfSyllables(Len(onsets), speech_analysis[1].active_speech_duration,
                                 Len(onsets), get_duration(y_len, sr))

\* A clip with 40% of speech or more whose mask retains no onset of several.
C24_WitnessEnoughSpeech ==
    /\ ar_wpm # None
    /\ RatGE(speech_analysis[1].active_speech_duration, <<1, 2>>)
    /\ RatGE(speech_analysis[1].speech_ratio, <<2, 5>>)
    /\ Len(onsets) >= 2
    /\ C24_Retained = 0

\* A clip with less than 40% of speech in which no onset was detected.
C24_WitnessNoOnset ==
    /\ ar_wpm # None
    /\ RatGE(speech_analysis[1].active_speech_duration, <<1, 2>>)
    /\ RatLT(speech_analysis[1].speech_ratio, <<2, 5>>)
    /\ Len(onsets) = 0

\* ------------------------------------------------------------------------
\* Claims about the pause bands (checked under SpecBands)
\* ------------------------------------------------------------------------

\* The number of the pauses of the analyzer that last at least low and,
\* when high is given, less than high.
C25_Between(low, high) ==
    Cardinality({k \in DOMAIN pause_analysis[1].pause_segments :
                    /\ RatGE(pause_analysis[1].pause_segments[k].duration, low)
                    /\ high # None =>
                          RatLT(pause_analysis[1].pause_segments[k].duration, high[1])})

\* The same for the pauses of the service: the gaps between successive
\* segments of 0.25 s or more.
C25_GapsBetween(low, high) ==
    Cardinality({k \in 2 .. Len(transcript_segments) :
                    LET gap == RatSub(transcript_segments[k].start, transcript_segments[k - 1].end)
                    IN  /\ RatGE(gap, <<1, 4>>)
                        /\ RatGE(gap, low)
                        /\ high # None => RatLT(gap, high[1])})

\* The four bands of the service, whose counts sum to its pause count.
C25_ServiceBands ==
    pause_metrics # None =>
        /\ pause_metrics[1].short_pauses = C25_GapsBetween(<<0, 1>>, Some(<<1, 2>>))
        /\ pause_metrics[1].medium_pauses = C25_GapsBetween(<<1, 2>>, Some(<<1, 1>>))
        /\ pause_metrics[1].long_pauses = C25_GapsBetween(<<1, 1>>, Some(<<2, 1>>))
        /\ pause_metrics[1].extended_pauses = C25_GapsBetween(<<2, 1>>, None)
        /\ pause_metrics[1].total_pauses = C25_GapsBetween(<<0, 1>>, None)
        /\ pause_metrics[1].short_pauses + pause_metrics[1].medium_pauses
              + pause_metrics[1].long_pauses + pause_metrics[1].extended_pauses
           = pause_metrics[1].total_pauses

\* C25 as stated: every pause detected, by the analyzer in a clip and by
\* the service between segments, falls in one of the four bands short
\* (below 0.5 s), medium (0.5 s to below 1.0 s), long (1.0 s to below 2.0 s)
\* and extended (2.0 s or more), the band counts reported are the numbers
\* of pauses of these bands, and they sum to the number of pauses.
C25_FourBandsEverywhere ==
    /\ C25_ServiceBands
    /\ pause_analysis # None =>
          /\ pause_analysis[1].short_pauses = C25_Between(<<0, 1>>, Some(<<1, 2>>))
          /\ pause_analysis[1].medium_pauses = C25_Between(<<1, 2>>, Some(<<1, 1>>))
          /\ pause_analysis[1].long_pauses = C25_Between(<<1, 1>>, Some(<<2, 1>>))
          /\ pause_analysis[1].short_pauses + pause_analysis[1].medium_pauses
                + pause_analysis[1].long_pauses + C25_Between(<<2, 1>>, None)
             = pause_analysis[1].total_pauses

\* C25, amended: the analyzer has three bands, short (below 0.5 s), medium
\* (0.5 s to below 1.0 s) and long (1.0 s or more, pauses of 2.0 s or more
\* included), and its three counts sum to total_pauses; the four bands
\* with the thresholds 0.5, 1.0 and 2.0 are those of the service, and its
\* four counts sum to its total_pauses.
C25_ThreeBandsAndFour ==
    /\ C25_ServiceBands
    /\ pause_analysis # None =>
          /\ pause_analysis[1].short_pauses = C25_Between(<<0, 1>>, Some(<<1, 2>>))
          /\ pause_analysis[1].medium_pauses = C25_Between(<<1, 2>>, Some(<<1, 1>>))
          /\ pause_analysis[1].long_pauses = C25_Between(<<1, 1>>, None)
          /\ pause_analysis[1].total_pauses = Len(pause_analysis[1].pause_segments)
          /\ pause_analysis[1].short_pauses + pause_analysis[1].medium_pauses
                + pause_analysis[1].long_pauses
             = pause_analysis[1].total_pauses

\* A clip with a pause of 2.0 s or more, which the analyzer counts as long.
C25_Witness ==
    /\ pause_analysis # None
    /\ C25_Between(<<2, 1>>, None) = 1
    /\ pause_analysis[1].long_pauses = 1
    /\ pause_analysis[1].total_pauses = 1

\* A clip with a pause of each of the three bands of the analyzer.
C25_WitnessThreeBands ==
    /\ pause_analysis # None
    /\ pause_analysis[1].short_pauses = 1
    /\ pause_analysis[1].medium_pauses = 1
    /\ pause_analysis[1].long_pauses = 1

\* A segment list with a pause of each of the four bands of the service.
C25_WitnessFourBands ==
    /\ pause_metrics # None
    /\ pause_metrics[1].short_pauses = 1
    /\ pause_metrics[1].medium_pauses = 1
    /\ pause_metrics[1].long_pauses = 1
    /\ pause_metrics[1].extended_pauses = 1
    /\ pause_metrics[1].total_pauses = 4

\* ------------------------------------------------------------------------
\* Claims about the overall score of POST /analyze (checked under Spec)
\* ------------------------------------------------------------------------

\* What the intelligibility and the pacing consistency of the result add
\* to the score before it is clamped.
C26_IntelligibilityPoints ==
    RatMul(RatDiv(result[1].intelligibility_score, <<100, 1>>), <<10, 1>>)

C26_PacingPoints == 10 * result[1].pacing_consistency

\* C26: once the overall score of a request is computed, the
\* intelligibility and the pacing consistency have each added at most 10
\* points to the score before the clamp, a pronunciation score has added
\* 30% of its value, and overall_score is a whole number from 0 to 100.
C26_PartsOfOverallScore ==
    overall_score # None =>
        /\ RatLE(C26_IntelligibilityPoints, <<10, 1>>)
        /\ C26_PacingPoints <= 10
        /\ overall_score[1] \in 0 .. 100

\* The parts of C26 that hold: the intelligibility adds at most 10 points
\* and overall_score is a whole number from 0 to 100.
C26_ScoreIsClamped ==
    overall_score # None =>
        /\ RatLE(C26_IntelligibilityPoints, <<10, 1>>)
        /\ overall_score[1] \in 0 .. 100

\* ------------------------------------------------------------------------
\* Claims about the accounting of the expected words (checked under SpecText)
\* ------------------------------------------------------------------------

\* The expected words of the matching blocks, in their order.
RECURSIVE C27_WordsOfBlocks(_)
C27_WordsOfBlocks(blocks) ==
    IF blocks = <<>> THEN <<>>
    ELSE SubSeq(ExpectedWords, Head(blocks)[1] + 1, Head(blocks)[1] + Head(blocks)[3])
         \o C27_WordsOfBlocks(Tail(blocks))

C27_Matched == C27_WordsOfBlocks(GetMatchingBlocks(ExpectedWords, TranscribedWords))

\* The expected words reported as mispronounced.
C27_Mispronounced ==
    [k \in DOMAIN comparison[1].mispronounced_words |->
        comparison[1].mispronounced_words[k].expected]

\* How often the word w occurs in the sequence words.
C27_Occurrences(w, words) == Cardinality({k \in DOMAIN words : words[k] = w})

\* C27: in every comparison each expected word is accounted for exactly
\* once: the words of the matching blocks, the missing words and the
\* mispronounced words together are the expected words, each as often as it
\* is expected, so their numbers sum to len(expected), and word_accuracy
\* times len(expected) plus the numbers of missing and mispronounced words
\* is len(expected).
C27_EachExpectedWordOnce ==
    comparison # None =>
        LET c == comparison[1]
            accounted == C27_Matched \o c.missing_words \o C27_Mispronounced
        IN  /\ Len(accounted) = Len(ExpectedWords)
            /\ \A k \in DOMAIN ExpectedWords :
                  C27_Occurrences(ExpectedWords[k], accounted)
                     = C27_Occurrences(ExpectedWords[k], ExpectedWords)
            /\ RatAdd(RatMul(Rat(c.accuracy[1], c.accuracy[2]), <<Len(ExpectedWords), 1>>),
                      <<Len(c.missing_words) + Len(c.mispronounced_words), 1>>)
               = <<Len(ExpectedWords), 1>>

\* A comparison with a matched, a missing and a mispronounced expected word.
C27_Witness ==
    /\ comparison # None
    /\ Len(ExpectedWords) = 3
    /\ Len(C27_Matched) = 1
    /\ Len(comparison[1].missing_words) = 1
    /\ Len(comparison[1].mispronounced_words) = 1

\* A comparison without expected words whose transcribed text has words.
C27_WitnessNoExpectedWord ==
    /\ comparison # None
    /\ ExpectedWords = <<>>
    /\ TranscribedWords # <<>>

\* ------------------------------------------------------------------------
\* Claims about the share of silence (checked under SpecBands)
\* ------------------------------------------------------------------------

\* The frames of the clip that the mask leaves out.
C28_SilentFrames ==
    Cardinality({f \in DOMAIN rms : ~ speech_analysis[1].speech_frames[f]})

\* C28 as stated: the mask leaves out at least 10% of the frames of every
\* clip, none of the frames of a clip of constant energy is active, the
\* silence ratio is at least 0.10, and neither the intelligibility estimator
\* nor the feedback is in its branch for a silence ratio below 0.10.
C28_SilenceRatioAtLeastTenth ==
    /\ speech_analysis # None =>
          /\ 10 * C28_SilentFrames >= Len(rms)
          /\ (\A f, g \in DOMAIN rms : rms[f] = rms[g]) => C28_SilentFrames = Len(rms)
    /\ pause_analysis # None =>
          /\ RatGE(pause_analysis[1].silence_ratio, <<1, 10>>)
          /\ SilenceFactor(pause_analysis[1].silence_ratio) # <<17, 20>>

\* C28, amended: the mask leaves out at least 10% of the frames of every
\* clip, and all the frames of a clip of constant energy; the silence ratio
\* 1 - speech_ratio, computed in floating point, is at least 0.10 unless
\* exactly 90% of the frames are active, and below 0.10 for such a clip,
\* which is then the only one to take the branches for a silence ratio
\* below 0.10.
C28_TenthOfFramesSilent ==
    /\ speech_analysis # None =>
          /\ 10 * C28_SilentFrames >= Len(rms)
          /\ (\A f, g \in DOMAIN rms : rms[f] = rms[g]) => C28_SilentFrames = Len(rms)
    /\ pause_analysis # None =>
          /\ RatLT(pause_analysis[1].silence_ratio, <<1, 10>>)
                <=> (Len(rms) > 0 /\ 10 * C28_SilentFrames = Len(rms))
          /\ SilenceFactor(pause_analysis[1].silence_ratio) = <<17, 20>>
                <=> (Len(rms) > 0 /\ 10 * C28_SilentFrames = Len(rms))
          /\ RatGT(pause_analysis[1].silence_ratio, <<99, 1000>>)

\* A clip of ten frames, nine of them active, whose silence ratio is found
\* below 0.10.
C28_Witness ==
    /\ pause_analysis # None
    /\ Len(rms) = 10
    /\ C28_SilentFrames = 1
    /\ RatLT(pause_analysis[1].silence_ratio, <<1, 10>>)

\* A clip of constant energy above zero: no frame is active.
C28_WitnessConstantEnergy ==
    /\ pause_analysis # None
    /\ Len(rms) >= 2
    /\ \A f \in DOMAIN rms : rms[f] = 1
    /\ pause_analysis[1].silence_ratio = <<1, 1>>


\* ------------------------------------------------------------------------
\* C29: every temporary file created by an analysis step is removed by the
\* time the step returns or raises, so that between the steps of a request
\* no temporary file exists, also when the conversion, the export or the
\* loading of the converted file fails.
C29_NoTemporaryFileLeft == temp_files = {}


\* ------------------------------------------------------------------------
\* Claims about the database (checked under SpecDb)
\* ------------------------------------------------------------------------

\* C30: in every state reached by application startups and recording
\* deletions, the user_statistics table holds at most one row.
C30_AtMostOneStatisticsRow == Len(user_statistics) <= 1

\* C30: a seed call on a database that already contains recordings changes
\* nothing.
C30_SeedSkippedOnRecordings ==
    [][(Startup /\ Len(recordings) > 0) => UNCHANGED vars]_vars

====
